---- MODULE Spec2Model ----
(***************************************************************************)
(* Versioned file store of prod-fc: db/repositories.py, db/integration.py, *)
(* db/session.py, db/models.py and utils/restore.py.                       *)
(*                                                                         *)
(* The relational store is modelled with PostgreSQL's default READ         *)
(* COMMITTED isolation: a statement reads the committed tables plus the    *)
(* rows its own transaction has flushed; an INSERT is checked against the  *)
(* primary keys and foreign keys the schema of db/models.py declares.      *)
(* Every awaited statement of a handler is one step of the calling task.   *)
(***************************************************************************)
EXTENDS Naturals, Sequences, FiniteSets, TLC

\* ------------------------------------------------------------------ bounds

\* file_versions holds at most MaxRows rows: a writer starts only below it.
MaxRows == 3
MaxSessions == 2
MaxClock == 2

\* ---------------------------------------------------------- value domains

Procs == {"t1", "t2"}
Users == {"u1", "u2"}
Projects == {"p1", "p2"}
Paths == {"/a.py", "/b.py"}
Names == {"Default Project", "Renamed"}
SandboxIds == {"sbx-1"}

\* A text is a sequence of tokens: "\n" is the line terminator, every other
\* token a run of characters holding no line boundary.
NL == "\n"
Contents == {<<"x=1">>, <<"x=2", NL>>}

\* None, and an Optional value as a sequence of length 0 or 1.
None == <<>>
Some(v) == <<v>>

Min(a, b) == IF a < b THEN a ELSE b
Max(a, b) == IF a > b THEN a ELSE b

\* ------------------------------------------------------- difflib, as used

\* str.splitlines(keepends=True): each line keeps its terminator, the last
\* line has none when the text does not end in one.
RECURSIVE splitlines(_)
splitlines(s) ==
    IF s = <<>> THEN <<>>
    ELSE LET ends == {i \in 1..Len(s) : s[i] = NL}
             k == IF ends = {} THEN Len(s)
                  ELSE CHOOSE i \in ends : \A j \in ends : i <= j
         IN  <<SubSeq(s, 1, k)>> \o splitlines(SubSeq(s, k + 1, Len(s)))

\* ''.join(lines)
RECURSIVE join(_)
join(ls) == IF ls = <<>> THEN <<>> ELSE Head(ls) \o join(Tail(ls))

\* Length of the common run of a from offset i and b from offset j
\* (0-based offsets, half-open limits ahi, bhi).
RECURSIVE MatchLen(_, _, _, _, _, _)
MatchLen(a, b, i, j, ahi, bhi) ==
    IF i < ahi /\ j < bhi /\ a[i + 1] = b[j + 1]
    THEN 1 + MatchLen(a, b, i + 1, j + 1, ahi, bhi)
    ELSE 0

\* SequenceMatcher.find_longest_match: the longest matching block, of those
\* the one starting earliest in a, of those the one starting earliest in b;
\* <<alo, blo, 0>> when nothing matches.  (No junk: autojunk needs 200 lines.)
find_longest_match(a, b, alo, ahi, blo, bhi) ==
    LET cand == {<<i, j>> \in (alo..(ahi - 1)) \X (blo..(bhi - 1)) :
                    MatchLen(a, b, i, j, ahi, bhi) > 0}
        len(c) == MatchLen(a, b, c[1], c[2], ahi, bhi)
        better(c, d) == \/ len(c) > len(d)
                        \/ len(c) = len(d) /\ c[1] < d[1]
                        \/ len(c) = len(d) /\ c[1] = d[1] /\ c[2] <= d[2]
    IN  IF cand = {} THEN <<alo, blo, 0>>
        ELSE LET best == CHOOSE c \in cand : \A d \in cand : better(c, d)
             IN  <<best[1], best[2], len(best)>>

\* SequenceMatcher.get_matching_blocks without its sentinel: the longest
\* block, then the blocks to its left and to its right, in order.
RECURSIVE matching_blocks(_, _, _, _, _, _)
matching_blocks(a, b, alo, ahi, blo, bhi) ==
    LET m == find_longest_match(a, b, alo, ahi, blo, bhi)
        i == m[1]
        j == m[2]
        k == m[3]
    IN  IF k = 0 THEN <<>>
        ELSE (IF alo < i /\ blo < j
              THEN matching_blocks(a, b, alo, i, blo, j) ELSE <<>>)
             \o <<m>>
             \o (IF i + k < ahi /\ j + k < bhi
                 THEN matching_blocks(a, b, i + k, ahi, j + k, bhi) ELSE <<>>)

\* SequenceMatcher.get_opcodes over the blocks and the sentinel <<la, lb, 0>>.
RECURSIVE opcodes(_, _, _, _)
opcodes(blocks, n, i, j) ==
    IF n > Len(blocks) THEN <<>>
    ELSE LET ai == blocks[n][1]
             bj == blocks[n][2]
             size == blocks[n][3]
             tag == IF i < ai /\ j < bj THEN "replace"
                    ELSE IF i < ai THEN "delete"
                    ELSE IF j < bj THEN "insert" ELSE ""
             chg == IF tag = "" THEN <<>>
                    ELSE <<[tag |-> tag, i1 |-> i, i2 |-> ai, j1 |-> j, j2 |-> bj]>>
             eq == IF size = 0 THEN <<>>
                   ELSE <<[tag |-> "equal", i1 |-> ai, i2 |-> ai + size,
                           j1 |-> bj, j2 |-> bj + size]>>
         IN  chg \o eq \o opcodes(blocks, n + 1, ai + size, bj + size)

get_opcodes(a, b) ==
    opcodes(matching_blocks(a, b, 0, Len(a), 0, Len(b)) \o <<<<Len(a), Len(b), 0>>>>,
            1, 0, 0)

\* unified_diff's default number of context lines.
ContextLines == 3

\* max(i1, i2 - n) of get_grouped_opcodes, in the naturals.
back_n(lo, hi) == Max(lo, IF hi > ContextLines THEN hi - ContextLines ELSE 0)

\* An equal opcode cut to its last n lines, and to its first n lines.
keep_tail(c) == [c EXCEPT !.i1 = back_n(c.i1, c.i2), !.j1 = back_n(c.j1, c.j2)]
keep_head(c) == [c EXCEPT !.i2 = Min(c.i2, c.i1 + ContextLines),
                          !.j2 = Min(c.j2, c.j1 + ContextLines)]

\* The loop of SequenceMatcher.get_grouped_opcodes(n): an equal run longer
\* than 2n closes the group; a group of one equal opcode is dropped.
RECURSIVE group_loop(_, _, _)
group_loop(codes, k, group) ==
    IF k > Len(codes)
    THEN IF group # <<>> /\ ~(Len(group) = 1 /\ group[1].tag = "equal")
         THEN <<group>> ELSE <<>>
    ELSE IF codes[k].tag = "equal" /\ codes[k].i2 - codes[k].i1 > 2 * ContextLines
         THEN <<Append(group, keep_head(codes[k]))>>
              \o group_loop(codes, k + 1, <<keep_tail(codes[k])>>)
         ELSE group_loop(codes, k + 1, Append(group, codes[k]))

\* get_grouped_opcodes: no opcode at all counts as one equal opcode; the
\* leading and the trailing equal run are cut to n lines first.
or_one_equal(codes) ==
    IF codes = <<>>
    THEN <<[tag |-> "equal", i1 |-> 0, i2 |-> 1, j1 |-> 0, j2 |-> 1]>>
    ELSE codes

trim_first(codes) ==
    IF codes[1].tag = "equal" THEN [codes EXCEPT ![1] = keep_tail(@)] ELSE codes

trim_last(codes) ==
    IF codes[Len(codes)].tag = "equal"
    THEN [codes EXCEPT ![Len(codes)] = keep_head(@)] ELSE codes

get_grouped_opcodes(a, b) ==
    group_loop(trim_last(trim_first(or_one_equal(get_opcodes(a, b)))), 1, <<>>)

\* difflib._format_range_unified
format_range_unified(start, stop) ==
    LET length == stop - start
    IN  IF length = 1 THEN <<ToString(start + 1)>>
        ELSE <<ToString(IF length = 0 THEN start ELSE start + 1), ",", ToString(length)>>

\* The lines one opcode yields: each input line behind a one-character
\* prefix, with whatever terminator the input line has.
prefixed(p, ls, lo, hi) == [n \in 1..(hi - lo) |-> <<p>> \o ls[lo + n]]

opcode_lines(c, a, b) ==
    IF c.tag = "equal" THEN prefixed(" ", a, c.i1, c.i2)
    ELSE (IF c.tag \in {"replace", "delete"} THEN prefixed("-", a, c.i1, c.i2) ELSE <<>>)
         \o (IF c.tag \in {"replace", "insert"} THEN prefixed("+", b, c.j1, c.j2) ELSE <<>>)

RECURSIVE group_lines(_, _, _, _)
group_lines(group, k, a, b) ==
    IF k > Len(group) THEN <<>>
    ELSE opcode_lines(group[k], a, b) \o group_lines(group, k + 1, a, b)

hunk_lines(group, a, b) ==
    LET first == group[1]
        last == group[Len(group)]
    IN  <<<<"@@ -">> \o format_range_unified(first.i1, last.i2)
              \o <<" +">> \o format_range_unified(first.j1, last.j2)
              \o <<" @@", NL>>>>
        \o group_lines(group, 1, a, b)

RECURSIVE hunks_lines(_, _, _, _)
hunks_lines(groups, k, a, b) ==
    IF k > Len(groups) THEN <<>>
    ELSE hunk_lines(groups[k], a, b) \o hunks_lines(groups, k + 1, a, b)

\* difflib.unified_diff(a, b, fromfile, tofile): n = 3, lineterm = "\n".  The
\* two file headers come out once, before the first hunk; equal inputs
\* yield no line at all.
unified_diff(a, b, fromfile, tofile) ==
    LET groups == get_grouped_opcodes(a, b)
    IN  IF groups = <<>> THEN <<>>
        ELSE <<<<"--- ">> \o fromfile \o <<NL>>, <<"+++ ">> \o tofile \o <<NL>>>>
             \o hunks_lines(groups, 1, a, b)

\* f"{file_path} (v{version})"
file_label(file_path, version) == <<file_path, " (v", ToString(version), ")">>

\* The diff_text save_file_version stores for content against the previous
\* version's content: the yielded lines joined with nothing between them.
diff_text_of(prev_content, content, file_path, latest_version) ==
    join(unified_diff(splitlines(prev_content), splitlines(content),
                      file_label(file_path, latest_version),
                      file_label(file_path, latest_version + 1)))

\* len(content.encode('utf-8')): "\n" is one byte, the other tokens
\* ("x=1", "x=2") three.
size_bytes_of(content) == Len(content) + 2 * Cardinality({i \in 1..Len(content) : content[i] # NL})

\* ------------------------------------------------------------------- state

VARIABLES
    users,          \* table users: the ids (email and username derive from the id)
    projects,       \* table projects: a set of rows
    file_versions,  \* table file_versions: the rows in commit order (the index is the row's id)
    tracker,        \* each task's DatabaseFileTracker: user_id, project_id, _initialized
    pc,             \* each task's position in the handler it runs
    call,           \* the handler a task runs, its arguments and its phase
    txn,            \* the task's open get_db_session transaction: what it read and flushed
    ret,            \* what the handler returned or raised
    logged,         \* logger.error messages of the running call
    rst,            \* restore_project_files' locals
    sessions,       \* table sessions: a set of rows
    sandbox_files,  \* the files of each (user, project) sandbox: path -> content
    clock           \* the time of the last timestamp taken

vars == <<users, projects, file_versions, tracker, pc, call, txn, ret, logged, rst,
          sessions, sandbox_files, clock>>

tables == <<users, projects, file_versions, sessions>>

\* What only FileTools and the session functions touch.
world == <<sandbox_files, clock>>

\* SandboxState (db/models.py)
SandboxState == {"running", "paused", "killed", "none"}

NoCall == [op |-> "none", phase |-> "none"]
NoTxn == [users |-> {}, projects |-> {}, rows |-> <<>>, updates |-> {},
          latest_version |-> 0, diff_text |-> None, loaded |-> None, result |-> None,
          sessions |-> {}, session_updates |-> {}]
NoRet == [raised |-> FALSE, value |-> None]
NoRst == [latest_files |-> <<>>, writes |-> <<>>, restored |-> <<>>]

\* DatabaseFileTracker.__init__: any identity, _initialized False (t1's is
\* named u1/p1: the ids are interchangeable).  The tables start empty (the
\* migrations create no row).
Init ==
    /\ users = {}
    /\ projects = {}
    /\ file_versions = <<>>
    /\ tracker \in {t \in [Procs -> [user_id : Users, project_id : Projects,
                                      initialized : {FALSE}]] :
                        t["t1"].user_id = "u1" /\ t["t1"].project_id = "p1"}
    /\ pc = [p \in Procs |-> "idle"]
    /\ call = [p \in Procs |-> NoCall]
    /\ txn = [p \in Procs |-> NoTxn]
    /\ ret = [p \in Procs |-> NoRet]
    /\ logged = [p \in Procs |-> {}]
    /\ rst = [p \in Procs |-> NoRst]
    /\ sessions = {}
    /\ sandbox_files = [s \in Users \X Projects |-> [fp \in Paths |-> None]]
    /\ clock = 0

\* ----------------------------------------------------------- the database

\* What a statement of p's transaction sees: committed rows and its own.
visible_users(p) == users \cup txn[p].users
visible_projects(p) == projects \cup txn[p].projects

\* An INSERT waits for a concurrent transaction that has flushed the same
\* primary key and not yet ended.
user_key_locked(p, id) == \E q \in Procs \ {p} : id \in txn[q].users
\* Mutant: projects.id without its primary key, an INSERT waits for nothing.
project_key_unlocked(p, id) == FALSE

project_key_locked(p, id) ==
    \E q \in Procs \ {p} : \E r \in txn[q].projects : r.id = id

\* An UPDATE waits for a concurrent transaction holding the row's lock.
project_row_locked(p, id) ==
    \E q \in Procs \ {p} : \E u \in txn[q].updates : u.id = id

\* Mutant: a created project starts in the running state.
new_project_running(user_id, project_id, name) ==
    [id |-> project_id, user_id |-> user_id, name |-> name,
     active_sandbox_id |-> <<>>, sandbox_state |-> "running"]

\* Project(id=..., user_id=..., name=...): the column defaults of
\* db/models.py give no sandbox id and SandboxState.NONE.
new_project(user_id, project_id, name) ==
    [id |-> project_id, user_id |-> user_id, name |-> name,
     active_sandbox_id |-> None, sandbox_state |-> "none"]

\* The UPDATE a flush emits, applied to the committed row: only the
\* columns named in u.cols are written.
apply_update(r, u) ==
    [r EXCEPT !.active_sandbox_id =
                  IF "active_sandbox_id" \in u.cols THEN u.active_sandbox_id ELSE @,
              !.sandbox_state =
                  IF "sandbox_state" \in u.cols THEN u.sandbox_state ELSE @]

update_for(updates, id) == CHOOSE u \in updates : u.id = id

apply_updates(rows, updates) ==
    {IF \E u \in updates : u.id = r.id
     THEN apply_update(r, update_for(updates, r.id))
     ELSE r : r \in rows}

\* SessionStatus (db/models.py)
SessionStatus == {"active", "paused", "ended"}

visible_sessions(p) == sessions \cup txn[p].sessions

\* Session.agno_session_id is unique: an INSERT of a non-null external id
\* waits for a concurrent transaction that has flushed the same one.
session_key_locked(p, ext) ==
    /\ ext # None
    /\ \E q \in Procs \ {p} : \E r \in txn[q].sessions : r.agno_session_id = ext

session_row_locked(p, id) ==
    \E q \in Procs \ {p} : \E u \in txn[q].session_updates : u.id = id

\* The UPDATE of a Session row: the columns in u.cols, and last_active
\* (onupdate=func.now()).
apply_session_update(r, u) ==
    [r EXCEPT !.status = IF "status" \in u.cols THEN u.status ELSE @,
              !.ended_at = IF "ended_at" \in u.cols THEN u.ended_at ELSE @,
              !.last_active = u.last_active]

apply_session_updates(rows, updates) ==
    {IF \E u \in updates : u.id = r.id
     THEN apply_session_update(r, CHOOSE u \in updates : u.id = r.id)
     ELSE r : r \in rows}

\* ------------------------------------------------------ FileRepository reads

chain_rows(project_id, file_path) ==
    {i \in 1..Len(file_versions) :
        /\ file_versions[i].project_id = project_id
        /\ file_versions[i].file_path = file_path}

\* Mutant: the maximum taken over the path alone, the filter on the
\* project left out.
max_version_by_path(project_id, file_path) ==
    LET vs == {file_versions[i].version :
                  i \in {j \in 1..Len(file_versions) :
                            file_versions[j].file_path = file_path}}
    IN  IF vs = {} THEN 0 ELSE CHOOSE v \in vs : \A w \in vs : w <= v

\* select(func.max(FileVersion.version)) ... scalar() or 0
max_version(project_id, file_path) ==
    LET vs == {file_versions[i].version : i \in chain_rows(project_id, file_path)}
    IN  IF vs = {} THEN 0 ELSE CHOOSE v \in vs : \A w \in vs : w <= v

\* The rows get_file_version's statement selects; scalar_one_or_none()
\* returns None for none, the row for one, and raises for more.
get_file_version_rows(project_id, file_path, version) ==
    {i \in chain_rows(project_id, file_path) : file_versions[i].version = version}

\* get_latest_file_version: ORDER BY version DESC LIMIT 1 returns one of the
\* rows at the maximum version (any of them when several share it).
get_latest_file_version(project_id, file_path) ==
    get_file_version_rows(project_id, file_path, max_version(project_id, file_path))

\* get_all_latest_files: group by path, take max(version), join back.  The
\* rows come in table order.
\* Mutant: every row of the project, the join on the maximum left out.
get_all_latest_files_unfiltered(project_id) ==
    LET F[n \in 0..Len(file_versions)] ==
            IF n = 0 THEN <<>>
            ELSE IF file_versions[n].project_id = project_id
                 THEN Append(F[n - 1], file_versions[n]) ELSE F[n - 1]
    IN  F[Len(file_versions)]

get_all_latest_files(project_id) ==
    LET hit(i) == /\ file_versions[i].project_id = project_id
                  /\ file_versions[i].version =
                        max_version(project_id, file_versions[i].file_path)
        F[n \in 0..Len(file_versions)] ==
            IF n = 0 THEN <<>>
            ELSE IF hit(n) THEN Append(F[n - 1], file_versions[n]) ELSE F[n - 1]
    IN  F[Len(file_versions)]

\* Mutant: the new row takes the version read instead of the next one.
new_file_version_same_version(project_id, file_path, content, latest_version, diff_text, tool) ==
    [project_id |-> project_id, file_path |-> file_path, content |-> content,
     size_bytes |-> size_bytes_of(content), version |-> latest_version,
     diff_from_previous |-> diff_text, created_by_tool |-> tool]

\* FileVersion(...) of save_file_version
new_file_version(project_id, file_path, content, latest_version, diff_text, tool) ==
    [project_id |-> project_id, file_path |-> file_path, content |-> content,
     size_bytes |-> size_bytes_of(content), version |-> latest_version + 1,
     diff_from_previous |-> diff_text, created_by_tool |-> tool]

\* ------------------------------------------------- how a handler continues

\* The first statement of the handler's own transaction, after the bootstrap.
body_pc(op) ==
    CASE op = "track_file_write" -> "save_max"
      [] op = "tracker_update_sandbox_state" -> "upd_select"
      [] OTHER -> "done"

\* The handler is over: it returned value, or raised.
finish(p, raised, value) ==
    /\ pc' = [pc EXCEPT ![p] = "done"]
    /\ ret' = [ret EXCEPT ![p] = [raised |-> raised, value |-> value]]
    /\ txn' = [txn EXCEPT ![p] = NoTxn]

\* What the handler returns once its own transaction has committed.
return_value(p) ==
    CASE call[p].op = "track_file_write" -> Some(TRUE)
      [] call[p].op \in {"get_or_create_project", "save_file_version",
                         "get_or_create_session"} -> txn[p].result
      [] call[p].op = "write_file" -> Some([success |-> TRUE, path |-> call[p].file_path])
      [] OTHER -> None

\* Mutant: no handler around the body of the tracker's methods, the
\* exception reaches the caller.
raise_in_txn_unhandled(p) ==
    /\ UNCHANGED <<tables, world, tracker, rst, call, logged>>
    /\ pc' = [pc EXCEPT ![p] = "done"]
    /\ ret' = [ret EXCEPT ![p] = [raised |-> TRUE, value |-> <<>>]]
    /\ txn' = [txn EXCEPT ![p] = NoTxn]

\* An exception inside p's get_db_session block (db/session.py): the
\* transaction is rolled back and the exception re-raised to the enclosing
\* handler.  ensure_project_exists logs it and returns with _initialized
\* unchanged; track_file_write logs it and returns False; the tracker's
\* update_sandbox_state logs it and returns; the repository functions have
\* no handler and raise it to their caller.  The tables are left as
\* they are.
raise_in_txn(p) ==
    /\ UNCHANGED <<tables, world, tracker, rst>>
    /\ IF call[p].phase = "ensure"
       THEN /\ pc' = [pc EXCEPT ![p] = body_pc(call[p].op)]
            /\ call' = [call EXCEPT ![p].phase = "body"]
            /\ txn' = [txn EXCEPT ![p] = NoTxn]
            /\ logged' = [logged EXCEPT ![p] = @ \cup {"Failed to ensure project exists"}]
            /\ ret' = ret
       ELSE /\ call' = call
            /\ CASE call[p].op = "track_file_write" ->
                      /\ finish(p, FALSE, Some(FALSE))
                      /\ logged' = [logged EXCEPT ![p] = @ \cup {"Failed to track file write"}]
                 [] call[p].op = "tracker_update_sandbox_state" ->
                      /\ finish(p, FALSE, None)
                      /\ logged' = [logged EXCEPT ![p] = @ \cup {"Failed to update sandbox state"}]
                 [] call[p].op = "get_or_create_session" ->
                      /\ finish(p, FALSE, None)
                      /\ logged' = [logged EXCEPT ![p] = @ \cup {"Failed to create session"}]
                 [] call[p].op = "end_session" ->
                      /\ finish(p, FALSE, None)
                      /\ logged' = [logged EXCEPT ![p] = @ \cup {"Failed to end session"}]
                 [] call[p].op = "write_file" ->
                      /\ finish(p, FALSE, Some([success |-> TRUE, path |-> call[p].file_path]))
                      /\ logged' = [logged EXCEPT ![p] = @ \cup {"Failed to persist"}]
                 [] OTHER ->
                      /\ finish(p, TRUE, None)
                      /\ logged' = logged

\* The positions inside a get_db_session block.
TxnPcs == {"ens_user", "ens_add_user", "proj_select", "proj_insert",
           "save_max", "save_prev", "save_flush",
           "upd_select", "upd_flush", "commit", "rst_fetch",
           "ses_select", "ses_touch", "ses_insert", "end_select", "end_flush"}

\* Mutant: get_db_session without its rollback, the user row the block
\* flushed stays in the table when the block raises.
StoreFailure_no_rollback(p) ==
    /\ pc[p] \in TxnPcs
    /\ users' = users \cup txn[p].users
    /\ pc' = [pc EXCEPT ![p] = "done"]
    /\ txn' = [txn EXCEPT ![p] = NoTxn]
    /\ logged' = [logged EXCEPT ![p] = @ \cup {"Failed to track file write"}]
    /\ UNCHANGED <<projects, file_versions, sessions, world, tracker, rst, call, ret>>

\* The backing store fails at the statement (or the commit) p is about to
\* run: unreachable, timed out.
StoreFailure(p) ==
    /\ pc[p] \in TxnPcs
    /\ raise_in_txn(p)

\* Mutant: a save overwrites the latest row of its chain in place.
Commit_in_place(p) ==
    /\ pc[p] = "commit"
    /\ users' = users \cup txn[p].users
    /\ projects' = apply_updates(projects, txn[p].updates) \cup txn[p].projects
    /\ file_versions' =
          IF txn[p].rows # <<>>
             /\ get_latest_file_version(txn[p].rows[1].project_id,
                                        txn[p].rows[1].file_path) # {}
          THEN [file_versions EXCEPT
                   ![CHOOSE i \in get_latest_file_version(txn[p].rows[1].project_id,
                                                          txn[p].rows[1].file_path) : TRUE]
                       = txn[p].rows[1]]
          ELSE file_versions \o txn[p].rows
    /\ sessions' = apply_session_updates(sessions, txn[p].session_updates)
                        \cup txn[p].sessions
    /\ IF call[p].phase = "ensure"
       THEN /\ tracker' = [tracker EXCEPT ![p].initialized = TRUE]
            /\ pc' = [pc EXCEPT ![p] = body_pc(call[p].op)]
            /\ call' = [call EXCEPT ![p].phase = "body"]
            /\ txn' = [txn EXCEPT ![p] = NoTxn]
            /\ ret' = ret
       ELSE /\ finish(p, FALSE, return_value(p))
            /\ UNCHANGED <<tracker, call>>
    /\ UNCHANGED <<logged, rst, world>>

\* session.commit() at the end of the get_db_session block: everything the
\* transaction flushed becomes visible.  After the bootstrap's commit
\* _initialized is set and the handler goes on; after the handler's own
\* commit it returns.
Commit(p) ==
    /\ pc[p] = "commit"
    /\ users' = users \cup txn[p].users
    /\ projects' = apply_updates(projects, txn[p].updates) \cup txn[p].projects
    /\ file_versions' = file_versions \o txn[p].rows
    /\ sessions' = apply_session_updates(sessions, txn[p].session_updates)
                        \cup txn[p].sessions
    /\ IF call[p].phase = "ensure"
       THEN /\ tracker' = [tracker EXCEPT ![p].initialized = TRUE]
            /\ pc' = [pc EXCEPT ![p] = body_pc(call[p].op)]
            /\ call' = [call EXCEPT ![p].phase = "body"]
            /\ txn' = [txn EXCEPT ![p] = NoTxn]
            /\ ret' = ret
       ELSE /\ finish(p, FALSE, return_value(p))
            /\ UNCHANGED <<tracker, call>>
    /\ UNCHANGED <<logged, rst, world>>

\* The caller takes the result; the task is free for its next call.
Return(p) ==
    /\ pc[p] = "done"
    /\ pc' = [pc EXCEPT ![p] = "idle"]
    /\ call' = [call EXCEPT ![p] = NoCall]
    /\ ret' = [ret EXCEPT ![p] = NoRet]
    /\ logged' = [logged EXCEPT ![p] = {}]
    /\ rst' = [rst EXCEPT ![p] = NoRst]
    /\ UNCHANGED <<tables, world, tracker, txn>>

\* ------------------------------------ DatabaseFileTracker.ensure_project_exists

\* Mutant: ensure_project_exists without its early return, the bootstrap
\* runs on every call.
begin_tracker_call_no_flag(p, c) ==
    /\ pc[p] = "idle"
    /\ call' = [call EXCEPT ![p] =
                   c @@ [user_id |-> tracker[p].user_id,
                         project_id |-> tracker[p].project_id,
                         name |-> "Project " \o tracker[p].project_id,
                         phase |-> "ensure"]]
    /\ pc' = [pc EXCEPT ![p] = "ens_user"]
    /\ UNCHANGED <<tables, world, tracker, txn, ret, logged, rst>>

\* A tracker method begins with ensure_project_exists(): nothing when
\* _initialized, else the bootstrap transaction.
begin_tracker_call(p, c) ==
    /\ pc[p] = "idle"
    /\ call' = [call EXCEPT ![p] =
                   c @@ [user_id |-> tracker[p].user_id,
                         project_id |-> tracker[p].project_id,
                         name |-> "Project " \o tracker[p].project_id,
                         phase |-> IF tracker[p].initialized THEN "body" ELSE "ensure"]]
    /\ pc' = [pc EXCEPT ![p] = IF tracker[p].initialized THEN body_pc(c.op) ELSE "ens_user"]
    /\ UNCHANGED <<tables, world, tracker, txn, ret, logged, rst>>

\* select(User).where(User.id == self.user_id)
EnsureSelectUser(p) ==
    /\ pc[p] = "ens_user"
    /\ pc' = [pc EXCEPT ![p] = IF call[p].user_id \in visible_users(p)
                               THEN "proj_select" ELSE "ens_add_user"]
    /\ UNCHANGED <<tables, world, tracker, call, txn, ret, logged, rst>>

\* session.add(user); flush(): the INSERT raises when the id is taken.
EnsureInsertUser(p) ==
    /\ pc[p] = "ens_add_user"
    /\ ~user_key_locked(p, call[p].user_id)
    /\ IF call[p].user_id \in users
       THEN raise_in_txn(p)
       ELSE /\ txn' = [txn EXCEPT ![p].users = @ \cup {call[p].user_id}]
            /\ pc' = [pc EXCEPT ![p] = "proj_select"]
            /\ UNCHANGED <<tables, world, tracker, call, ret, logged, rst>>

\* ------------------------------------ ProjectRepository.get_or_create_project

\* select(Project).where(Project.id == project_id): the row found is the
\* result; no column of it is written.
\* What follows get_or_create_project: _persist_file_to_db goes on to
\* save_file_version in the same transaction, the other callers leave
\* their get_db_session block.
\* Mutant: _persist_file_to_db leaves its block after the bootstrap, the
\* user and the project committed without the version.
after_project_commits(op) == "commit"

after_project(op) == IF op = "write_file" THEN "save_max" ELSE "commit"

GetOrCreateProjectSelect(p) ==
    /\ pc[p] = "proj_select"
    /\ LET found == {r \in visible_projects(p) : r.id = call[p].project_id}
       IN  IF found # {}
           THEN /\ txn' = [txn EXCEPT ![p].result = Some(CHOOSE r \in found : TRUE)]
                /\ pc' = [pc EXCEPT ![p] = after_project(call[p].op)]
           ELSE /\ txn' = txn
                /\ pc' = [pc EXCEPT ![p] = "proj_insert"]
    /\ UNCHANGED <<tables, world, tracker, call, ret, logged, rst>>

\* session.add(project); flush(): the INSERT raises when the id is taken or
\* the owner has no row (ForeignKey users.id).
GetOrCreateProjectInsert(p) ==
    /\ pc[p] = "proj_insert"
    /\ ~project_key_locked(p, call[p].project_id)
    /\ IF \/ \E r \in projects : r.id = call[p].project_id
          \/ call[p].user_id \notin visible_users(p)
       THEN raise_in_txn(p)
       ELSE LET row == new_project(call[p].user_id, call[p].project_id, call[p].name)
            IN  /\ txn' = [txn EXCEPT ![p].projects = @ \cup {row},
                                      ![p].result = Some(row)]
                /\ pc' = [pc EXCEPT ![p] = after_project(call[p].op)]
                /\ UNCHANGED <<tables, world, tracker, call, ret, logged, rst>>

\* ----------------------------------------- FileRepository.save_file_version

\* Rows a running save_file_version may still add.
saves_in_flight == Cardinality({q \in Procs :
    call[q].op \in {"track_file_write", "save_file_version", "write_file"}
    /\ pc[q] # "done"})

\* DatabaseFileTracker.track_file_write(file_path, content), tool_name
\* "write_file".
track_file_write(p, file_path, content) ==
    /\ Len(file_versions) + saves_in_flight < MaxRows
    /\ begin_tracker_call(p, [op |-> "track_file_write", file_path |-> file_path,
                              content |-> content, created_by_tool |-> "write_file"])

\* select(func.max(FileVersion.version)): latest_version
SaveSelectMax(p) ==
    /\ pc[p] = "save_max"
    /\ LET latest == max_version(call[p].project_id, call[p].file_path)
       IN  /\ txn' = [txn EXCEPT ![p].latest_version = latest]
           /\ pc' = [pc EXCEPT ![p] = IF latest > 0 THEN "save_prev" ELSE "save_flush"]
    /\ UNCHANGED <<tables, world, tracker, call, ret, logged, rst>>

\* Mutant: an empty diff text is stored as None ("''.join(diff) or None").
diff_against_empty_as_none(found, content, file_path, latest_version) ==
    IF found = {} THEN None
    ELSE IF diff_text_of(file_versions[CHOOSE i \in found : TRUE].content,
                         content, file_path, latest_version) = <<>> THEN None
    ELSE Some(diff_text_of(file_versions[CHOOSE i \in found : TRUE].content,
                           content, file_path, latest_version))

\* if prev_version: diff_text = ''.join(unified_diff(...)), else it stays
\* None.  found holds the ids of the rows selected (at most one here).
diff_against(found, content, file_path, latest_version) ==
    IF found = {} THEN None
    ELSE Some(diff_text_of(file_versions[CHOOSE i \in found : TRUE].content,
                           content, file_path, latest_version))

\* get_file_version(project_id, file_path, latest_version) and the diff
\* against its content.  scalar_one_or_none() raises MultipleResultsFound
\* when several rows carry that version.
SaveSelectPrev(p) ==
    /\ pc[p] = "save_prev"
    /\ IF Cardinality(get_file_version_rows(call[p].project_id, call[p].file_path,
                                            txn[p].latest_version)) > 1
       THEN raise_in_txn(p)
       ELSE /\ txn' = [txn EXCEPT ![p].diff_text =
                          diff_against(get_file_version_rows(call[p].project_id,
                                           call[p].file_path, txn[p].latest_version),
                                       call[p].content, call[p].file_path,
                                       txn[p].latest_version)]
            /\ pc' = [pc EXCEPT ![p] = "save_flush"]
            /\ UNCHANGED <<tables, world, tracker, call, ret, logged, rst>>

\* Mutant: skip-if-unchanged, a content equal to the latest version's is
\* not stored again and the latest row is returned.
SaveFlush_skip_unchanged(p) ==
    /\ pc[p] = "save_flush"
    /\ IF ~\E r \in visible_projects(p) : r.id = call[p].project_id
       THEN raise_in_txn(p)
       ELSE /\ txn' = [txn EXCEPT
                  ![p].rows =
                      IF \E i \in get_latest_file_version(call[p].project_id,
                                                          call[p].file_path) :
                             file_versions[i].content = call[p].content
                      THEN @
                      ELSE Append(@, new_file_version(call[p].project_id,
                               call[p].file_path, call[p].content,
                               txn[p].latest_version, txn[p].diff_text,
                               call[p].created_by_tool)),
                  ![p].result = Some(new_file_version(call[p].project_id,
                               call[p].file_path, call[p].content,
                               txn[p].latest_version, txn[p].diff_text,
                               call[p].created_by_tool))]
            /\ pc' = [pc EXCEPT ![p] = "commit"]
            /\ UNCHANGED <<tables, world, tracker, call, ret, logged, rst>>

\* Mutant: file_versions.project_id without its foreign key, the INSERT
\* goes through whether or not the project has a row.
SaveFlush_no_foreign_key(p) ==
    /\ pc[p] = "save_flush"
    /\ txn' = [txn EXCEPT
          ![p].rows = Append(@, new_file_version(call[p].project_id,
                          call[p].file_path, call[p].content,
                          txn[p].latest_version, txn[p].diff_text,
                          call[p].created_by_tool)),
          ![p].result = Some(new_file_version(call[p].project_id,
                          call[p].file_path, call[p].content,
                          txn[p].latest_version, txn[p].diff_text,
                          call[p].created_by_tool))]
    /\ pc' = [pc EXCEPT ![p] = "commit"]
    /\ UNCHANGED <<tables, world, tracker, call, ret, logged, rst>>

\* session.add(new_version); flush(): the INSERT raises when the project
\* has no row (ForeignKey projects.id).  No constraint names the version.
SaveFlush(p) ==
    /\ pc[p] = "save_flush"
    /\ IF ~\E r \in visible_projects(p) : r.id = call[p].project_id
       THEN raise_in_txn(p)
       ELSE LET row == new_file_version(call[p].project_id, call[p].file_path,
                                        call[p].content, txn[p].latest_version,
                                        txn[p].diff_text, call[p].created_by_tool)
            IN  /\ txn' = [txn EXCEPT ![p].rows = Append(@, row),
                                      ![p].result = Some(row)]
                /\ pc' = [pc EXCEPT ![p] = "commit"]
                /\ UNCHANGED <<tables, world, tracker, call, ret, logged, rst>>

\* A caller runs save_file_version in a get_db_session block of its own.
save_file_version(p, project_id, file_path, content, tool) ==
    /\ pc[p] = "idle"
    /\ Len(file_versions) + saves_in_flight < MaxRows
    /\ call' = [call EXCEPT ![p] =
                   [op |-> "save_file_version", phase |-> "body",
                    project_id |-> project_id, file_path |-> file_path,
                    content |-> content, created_by_tool |-> tool]]
    /\ pc' = [pc EXCEPT ![p] = "save_max"]
    /\ UNCHANGED <<tables, world, tracker, txn, ret, logged, rst>>

\* A caller runs get_or_create_project in a get_db_session block of its own.
get_or_create_project(p, user_id, project_id, name) ==
    /\ pc[p] = "idle"
    /\ call' = [call EXCEPT ![p] =
                   [op |-> "get_or_create_project", phase |-> "body",
                    user_id |-> user_id, project_id |-> project_id, name |-> name]]
    /\ pc' = [pc EXCEPT ![p] = "proj_select"]
    /\ UNCHANGED <<tables, world, tracker, txn, ret, logged, rst>>

\* -------------------------------------- ProjectRepository.update_sandbox_state

\* A caller runs the repository's update_sandbox_state in a get_db_session
\* block of its own; state is a SandboxState.
update_sandbox_state(p, project_id, sandbox_id, state) ==
    /\ pc[p] = "idle"
    /\ call' = [call EXCEPT ![p] =
                   [op |-> "update_sandbox_state", phase |-> "body",
                    project_id |-> project_id, sandbox_id |-> sandbox_id,
                    state |-> state]]
    /\ pc' = [pc EXCEPT ![p] = "upd_select"]
    /\ UNCHANGED <<tables, world, tracker, txn, ret, logged, rst>>

\* DatabaseFileTracker.update_sandbox_state(sandbox_id, state): state is a
\* string.
tracker_update_sandbox_state(p, sandbox_id, state) ==
    begin_tracker_call(p, [op |-> "tracker_update_sandbox_state",
                           sandbox_id |-> sandbox_id, state |-> state])

\* Mutant: a string that names no member falls back to SandboxState.NONE
\* as the empty string does.
sandbox_state_of_lenient(c) ==
    IF c.op = "tracker_update_sandbox_state" /\ c.state \notin SandboxState
    THEN "none" ELSE c.state

\* SandboxState(state) if state else SandboxState.NONE; the repository
\* function is handed the enum member itself.
sandbox_state_of(c) ==
    IF c.op = "tracker_update_sandbox_state" /\ c.state = "" THEN "none" ELSE c.state

\* Mutant: the lookup with scalar_one(), a missing project raises
\* NoResultFound.
UpdateSelect_miss_raises(p) ==
    /\ pc[p] = "upd_select"
    /\ IF \/ sandbox_state_of(call[p]) \notin SandboxState
          \/ ~\E r \in visible_projects(p) : r.id = call[p].project_id
       THEN raise_in_txn(p)
       ELSE /\ txn' = [txn EXCEPT ![p].loaded =
                  Some(CHOOSE r \in visible_projects(p) : r.id = call[p].project_id)]
            /\ pc' = [pc EXCEPT ![p] = "upd_flush"]
            /\ UNCHANGED <<tables, world, tracker, call, ret, logged, rst>>

\* The tracker converts the string (ValueError when it names no member),
\* then the repository selects the Project: absent, nothing is written.
UpdateSelect(p) ==
    /\ pc[p] = "upd_select"
    /\ IF sandbox_state_of(call[p]) \notin SandboxState
       THEN raise_in_txn(p)
       ELSE /\ IF \E r \in visible_projects(p) : r.id = call[p].project_id
               THEN /\ txn' = [txn EXCEPT ![p].loaded =
                          Some(CHOOSE r \in visible_projects(p) : r.id = call[p].project_id)]
                    /\ pc' = [pc EXCEPT ![p] = "upd_flush"]
               ELSE /\ txn' = txn
                    /\ pc' = [pc EXCEPT ![p] = "commit"]
            /\ UNCHANGED <<tables, world, tracker, call, ret, logged, rst>>

\* The columns whose assigned value differs from the value loaded: the
\* session's flush writes these and no other.
changed_columns(loaded, sandbox_id, state) ==
    (IF loaded.active_sandbox_id # sandbox_id THEN {"active_sandbox_id"} ELSE {})
    \cup (IF loaded.sandbox_state # state THEN {"sandbox_state"} ELSE {})

\* project.active_sandbox_id = sandbox_id; project.sandbox_state = state;
\* flush(): one UPDATE of the changed columns (none: no statement), which
\* waits while another transaction holds the row.
UpdateFlush(p) ==
    /\ pc[p] = "upd_flush"
    /\ ~project_row_locked(p, call[p].project_id)
    /\ txn' = [txn EXCEPT ![p].updates =
          IF changed_columns(txn[p].loaded[1], call[p].sandbox_id,
                             sandbox_state_of(call[p])) = {}
          THEN {}
          ELSE {[id |-> call[p].project_id,
                 cols |-> changed_columns(txn[p].loaded[1], call[p].sandbox_id,
                                          sandbox_state_of(call[p])),
                 active_sandbox_id |-> call[p].sandbox_id,
                 sandbox_state |-> sandbox_state_of(call[p])]}]
    /\ pc' = [pc EXCEPT ![p] = "commit"]
    /\ UNCHANGED <<tables, world, tracker, call, ret, logged, rst>>

\* --------------------------------------------------- restore_project_files

\* restore_project_files(session, sandbox, project_id), on the caller's
\* session.
restore_project_files(p, project_id) ==
    /\ pc[p] = "idle"
    /\ call' = [call EXCEPT ![p] =
                   [op |-> "restore_project_files", phase |-> "body",
                    project_id |-> project_id]]
    /\ pc' = [pc EXCEPT ![p] = "rst_fetch"]
    /\ UNCHANGED <<tables, world, tracker, txn, ret, logged, rst>>

\* latest_files = await file_repo.get_all_latest_files(project_id)
RestoreFetch(p) ==
    /\ pc[p] = "rst_fetch"
    /\ rst' = [rst EXCEPT ![p].latest_files = get_all_latest_files(call[p].project_id)]
    /\ pc' = [pc EXCEPT ![p] = "rst_write"]
    /\ UNCHANGED <<tables, world, tracker, call, txn, ret, logged>>

\* restored[file_path] = version
dict_set(d, k, v) == [x \in DOMAIN d \cup {k} |-> IF x = k THEN v ELSE d[x]]

\* Mutant: the assignment placed before the write, so it runs either way.
restored_after_unconditional(d, file_version, ok) ==
    [x \in DOMAIN d \cup {file_version.file_path} |->
        IF x = file_version.file_path THEN file_version.version ELSE d[x]]

\* The dict after one turn of the loop: the assignment follows the write
\* inside the try, so a write that raises records nothing.
restored_after(d, file_version, ok) ==
    IF ok THEN dict_set(d, file_version.file_path, file_version.version) ELSE d

\* Mutant: the replay goes through the tracked write path, each file
\* written is stored again as a new version.
RestoreWrite_tracked(p, ok) ==
    /\ pc[p] = "rst_write"
    /\ Len(rst[p].writes) < Len(rst[p].latest_files)
    /\ rst' = [rst EXCEPT
          ![p].writes = Append(@,
              [file_path |-> rst[p].latest_files[Len(rst[p].writes) + 1].file_path,
               content |-> rst[p].latest_files[Len(rst[p].writes) + 1].content,
               ok |-> ok]),
          ![p].restored =
              restored_after(@, rst[p].latest_files[Len(rst[p].writes) + 1], ok)]
    /\ logged' = [logged EXCEPT ![p] = IF ok THEN @ ELSE @ \cup {"Failed to restore"}]
    /\ file_versions' =
          IF ok
          THEN Append(file_versions,
                   [rst[p].latest_files[Len(rst[p].writes) + 1] EXCEPT
                       !.version = @ + 1, !.created_by_tool = "restore"])
          ELSE file_versions
    /\ UNCHANGED <<users, projects, sessions, world, tracker, pc, call, txn, ret>>

\* One turn of the loop: sandbox.files.write(file_path, content) succeeds
\* (ok) and the path is recorded, or raises and the failure is logged.
RestoreWrite(p, ok) ==
    /\ pc[p] = "rst_write"
    /\ Len(rst[p].writes) < Len(rst[p].latest_files)
    /\ rst' = [rst EXCEPT
          ![p].writes = Append(@,
              [file_path |-> rst[p].latest_files[Len(rst[p].writes) + 1].file_path,
               content |-> rst[p].latest_files[Len(rst[p].writes) + 1].content,
               ok |-> ok]),
          ![p].restored =
              restored_after(@, rst[p].latest_files[Len(rst[p].writes) + 1], ok)]
    /\ logged' = [logged EXCEPT ![p] = IF ok THEN @ ELSE @ \cup {"Failed to restore"}]
    /\ UNCHANGED <<tables, world, tracker, pc, call, txn, ret>>

\* return restored
RestoreReturn(p) ==
    /\ pc[p] = "rst_write"
    /\ Len(rst[p].writes) = Len(rst[p].latest_files)
    /\ finish(p, FALSE, Some(rst[p].restored))
    /\ UNCHANGED <<tables, world, tracker, call, logged, rst>>

\* ------------------------------------------------------ FileTools.write_file

\* The sandbox of the FileTools instance: get_user_sandbox(user_id, project_id).
sandbox_of(c) == <<c.user_id, c.project_id>>

\* FileTools(user_id, project_id, enable_db_tracking).write_file(path,
\* content, overwrite): the task's FileTools carries the ids of its tracker.
write_file(p, path, content, overwrite, enable_db_tracking) ==
    /\ pc[p] = "idle"
    /\ Len(file_versions) + saves_in_flight < MaxRows
    /\ call' = [call EXCEPT ![p] =
                   [op |-> "write_file", phase |-> "body",
                    user_id |-> tracker[p].user_id, project_id |-> tracker[p].project_id,
                    name |-> "Default Project",
                    file_path |-> path, content |-> content, overwrite |-> overwrite,
                    enable_db_tracking |-> enable_db_tracking,
                    created_by_tool |-> "write_file", written |-> FALSE]]
    /\ pc' = [pc EXCEPT ![p] = "wf_exists"]
    /\ UNCHANGED <<tables, world, tracker, txn, ret, logged, rst>>

\* file_exists(path): sandbox.files.exists, False when the check itself
\* fails (ok is FALSE).
file_exists(c, ok) == ok /\ sandbox_files[sandbox_of(c)][c.file_path] # None

\* file_exists = await self.file_exists(path); FileExistsError when the
\* file exists and overwrite is off.
WriteFileExists(p, ok) ==
    /\ pc[p] = "wf_exists"
    /\ IF file_exists(call[p], ok) /\ ~call[p].overwrite
       THEN finish(p, TRUE, None)
       ELSE /\ pc' = [pc EXCEPT ![p] = "wf_write"]
            /\ UNCHANGED <<txn, ret>>
    /\ UNCHANGED <<tables, world, tracker, call, logged, rst>>

\* Where write_file goes after the sandbox write: _persist_file_to_db
\* returns at once when tracking is off.
after_write(c) == IF c.enable_db_tracking THEN "ens_user" ELSE "wf_result"

\* Mutant: a sandbox write that raises is logged and the persistence step
\* runs all the same.
WriteFileSandbox_persist_anyway(p, ok) ==
    /\ pc[p] = "wf_write"
    /\ sandbox_files' = IF ok
          THEN [sandbox_files EXCEPT
                   ![sandbox_of(call[p])][call[p].file_path] = Some(call[p].content)]
          ELSE sandbox_files
    /\ call' = [call EXCEPT ![p].written = ok]
    /\ pc' = [pc EXCEPT ![p] = after_write(call[p])]
    /\ UNCHANGED <<txn, ret, tables, clock, tracker, logged, rst>>

\* write_info = await sandbox.files.write(path, content): it stores the
\* content (ok), or raises and write_file raises OSError.
WriteFileSandbox(p, ok) ==
    /\ pc[p] = "wf_write"
    /\ IF ok
       THEN /\ sandbox_files' = [sandbox_files EXCEPT
                   ![sandbox_of(call[p])][call[p].file_path] = Some(call[p].content)]
            /\ call' = [call EXCEPT ![p].written = TRUE]
            /\ pc' = [pc EXCEPT ![p] = after_write(call[p])]
            /\ UNCHANGED <<txn, ret>>
       ELSE /\ finish(p, TRUE, None)
            /\ UNCHANGED <<sandbox_files, call>>
    /\ UNCHANGED <<tables, clock, tracker, logged, rst>>

\* return result, with tracking off
WriteFileResult(p) ==
    /\ pc[p] = "wf_result"
    /\ finish(p, FALSE, return_value(p))
    /\ UNCHANGED <<tables, world, tracker, call, logged, rst>>

\* ------------------------------------- get_or_create_session, end_session

\* Timestamps still to be taken by the running calls.
stamps_in_flight == Cardinality({q \in Procs :
    call[q].op \in {"get_or_create_session", "end_session"} /\ pc[q] # "done"})

\* get_or_create_session(project_id, agno_session_id)
get_or_create_session(p, project_id, agno_session_id) ==
    /\ pc[p] = "idle"
    /\ Cardinality(sessions) + stamps_in_flight < MaxSessions
    /\ clock + stamps_in_flight < MaxClock
    /\ call' = [call EXCEPT ![p] =
                   [op |-> "get_or_create_session", phase |-> "body",
                    project_id |-> project_id, agno_session_id |-> agno_session_id]]
    /\ pc' = [pc EXCEPT ![p] = "ses_select"]
    /\ UNCHANGED <<tables, world, tracker, txn, ret, logged, rst>>

\* if agno_session_id: an empty string is not looked up.
truthy(ext) == ext # None /\ ext # Some("")

sessions_with(p, ext) == {r \in visible_sessions(p) : r.agno_session_id = ext}

\* select(Session).where(Session.agno_session_id == agno_session_id)
SessionSelect(p) ==
    /\ pc[p] = "ses_select"
    /\ IF truthy(call[p].agno_session_id)
          /\ sessions_with(p, call[p].agno_session_id) # {}
       THEN /\ txn' = [txn EXCEPT ![p].loaded =
                   Some(CHOOSE r \in sessions_with(p, call[p].agno_session_id) : TRUE)]
            /\ pc' = [pc EXCEPT ![p] = "ses_touch"]
       ELSE /\ txn' = txn
            /\ pc' = [pc EXCEPT ![p] = "ses_insert"]
    /\ UNCHANGED <<tables, world, tracker, call, ret, logged, rst>>

\* Mutant: the lookup hit also sets status back to ACTIVE.
SessionTouch_reactivate(p) ==
    /\ pc[p] = "ses_touch"
    /\ ~session_row_locked(p, txn[p].loaded[1].id)
    /\ clock' = clock + 1
    /\ txn' = [txn EXCEPT
          ![p].session_updates = {[id |-> txn[p].loaded[1].id,
                                   cols |-> {"last_active", "status"},
                                   last_active |-> clock + 1,
                                   status |-> "active",
                                   ended_at |-> txn[p].loaded[1].ended_at]},
          ![p].result = Some(txn[p].loaded[1].id)]
    /\ pc' = [pc EXCEPT ![p] = "commit"]
    /\ UNCHANGED <<tables, sandbox_files, tracker, call, ret, logged, rst>>

\* session.last_active = datetime.now(); flush(); return session.id
SessionTouch(p) ==
    /\ pc[p] = "ses_touch"
    /\ ~session_row_locked(p, txn[p].loaded[1].id)
    /\ clock' = clock + 1
    /\ txn' = [txn EXCEPT
          ![p].session_updates = {[id |-> txn[p].loaded[1].id, cols |-> {"last_active"},
                                   last_active |-> clock + 1,
                                   status |-> txn[p].loaded[1].status,
                                   ended_at |-> txn[p].loaded[1].ended_at]},
          ![p].result = Some(txn[p].loaded[1].id)]
    /\ pc' = [pc EXCEPT ![p] = "commit"]
    /\ UNCHANGED <<tables, sandbox_files, tracker, call, ret, logged, rst>>

\* generate_uuid(): an id no row carries.
generate_uuid(p) == <<p, Cardinality(sessions)>>

\* Session(project_id, agno_session_id, status=ACTIVE); the timestamps are
\* the server's now().
new_session(p, project_id, agno_session_id) ==
    [id |-> generate_uuid(p), project_id |-> project_id,
     agno_session_id |-> agno_session_id, status |-> "active",
     last_active |-> clock, ended_at |-> None]

\* db_session.add(new_session); flush(): the INSERT raises when the project
\* has no row (ForeignKey projects.id) or the external id is taken.
SessionInsert(p) ==
    /\ pc[p] = "ses_insert"
    /\ ~session_key_locked(p, call[p].agno_session_id)
    /\ IF \/ ~\E r \in visible_projects(p) : r.id = call[p].project_id
          \/ /\ call[p].agno_session_id # None
             /\ \E r \in sessions : r.agno_session_id = call[p].agno_session_id
       THEN raise_in_txn(p)
       ELSE /\ txn' = [txn EXCEPT
                  ![p].sessions = {new_session(p, call[p].project_id,
                                               call[p].agno_session_id)},
                  ![p].result = Some(generate_uuid(p))]
            /\ pc' = [pc EXCEPT ![p] = "commit"]
            /\ UNCHANGED <<tables, world, tracker, call, ret, logged, rst>>

\* end_session(agno_session_id)
end_session(p, agno_session_id) ==
    /\ pc[p] = "idle"
    /\ clock + stamps_in_flight < MaxClock
    /\ call' = [call EXCEPT ![p] =
                   [op |-> "end_session", phase |-> "body",
                    agno_session_id |-> Some(agno_session_id)]]
    /\ pc' = [pc EXCEPT ![p] = "end_select"]
    /\ UNCHANGED <<tables, world, tracker, txn, ret, logged, rst>>

\* select(Session).where(Session.agno_session_id == agno_session_id)
EndSelect(p) ==
    /\ pc[p] = "end_select"
    /\ IF sessions_with(p, call[p].agno_session_id) # {}
       THEN /\ txn' = [txn EXCEPT ![p].loaded =
                   Some(CHOOSE r \in sessions_with(p, call[p].agno_session_id) : TRUE)]
            /\ pc' = [pc EXCEPT ![p] = "end_flush"]
       ELSE /\ txn' = txn
            /\ pc' = [pc EXCEPT ![p] = "commit"]
    /\ UNCHANGED <<tables, world, tracker, call, ret, logged, rst>>

\* Mutant: end_session stamps ended_at and leaves the status.
ended_columns_stamp_only(loaded) == {"ended_at", "last_active"}

\* The columns end_session's flush writes: ended_at, and status when the
\* row loaded was not ENDED already.
ended_columns(loaded) ==
    {"ended_at", "last_active"} \cup (IF loaded.status # "ended" THEN {"status"} ELSE {})

\* session.status = ENDED; session.ended_at = datetime.now(); flush()
EndFlush(p) ==
    /\ pc[p] = "end_flush"
    /\ ~session_row_locked(p, txn[p].loaded[1].id)
    /\ clock' = clock + 1
    /\ txn' = [txn EXCEPT
          ![p].session_updates = {[id |-> txn[p].loaded[1].id,
                                   cols |-> ended_columns(txn[p].loaded[1]),
                                   last_active |-> clock + 1,
                                   status |-> "ended",
                                   ended_at |-> Some(clock + 1)]}]
    /\ pc' = [pc EXCEPT ![p] = "commit"]
    /\ UNCHANGED <<tables, sandbox_files, tracker, call, ret, logged, rst>>

\* -------------------------------------------------------- specifications

Next ==
    \E p \in Procs :
        \/ \E fp \in Paths, c \in Contents : track_file_write(p, fp, c)
        \/ EnsureSelectUser(p)
        \/ EnsureInsertUser(p)
        \/ GetOrCreateProjectSelect(p)
        \/ GetOrCreateProjectInsert(p)
        \/ SaveSelectMax(p)
        \/ SaveSelectPrev(p)
        \/ SaveFlush(p)
        \/ Commit(p)
        \/ StoreFailure(p)
        \/ Return(p)

Spec == Init /\ [][Next]_vars

\* One call at a time: a task takes a step only while every other task is
\* idle, so no two handlers overlap.
alone(p) == \A q \in Procs \ {p} : pc[q] = "idle"

SeqNext ==
    \E p \in Procs :
        \/ alone(p) /\ \E fp \in Paths, c \in Contents : track_file_write(p, fp, c)
        \/ alone(p) /\ \E pr \in Projects, fp \in Paths, c \in Contents :
                            save_file_version(p, pr, fp, c, "write_file")
        \/ alone(p) /\ \E pr \in Projects : restore_project_files(p, pr)
        \/ alone(p) /\ EnsureSelectUser(p)
        \/ alone(p) /\ EnsureInsertUser(p)
        \/ alone(p) /\ GetOrCreateProjectSelect(p)
        \/ alone(p) /\ GetOrCreateProjectInsert(p)
        \/ alone(p) /\ SaveSelectMax(p)
        \/ alone(p) /\ SaveSelectPrev(p)
        \/ alone(p) /\ SaveFlush(p)
        \/ alone(p) /\ RestoreFetch(p)
        \/ alone(p) /\ \E ok \in BOOLEAN : RestoreWrite(p, ok)
        \/ alone(p) /\ RestoreReturn(p)
        \/ alone(p) /\ Commit(p)
        \/ alone(p) /\ StoreFailure(p)
        \/ alone(p) /\ Return(p)

SeqSpec == Init /\ [][SeqNext]_vars

\* The sandbox lifecycle calls and the project registry, running
\* concurrently: the repository functions on project p1, the trackers on
\* their own project.
UpdateArgs == {<<Some("sbx-1"), "running">>, <<None, "killed">>}

ProjNext ==
    \E p \in Procs :
        \/ \E u \in Users, n \in Names : get_or_create_project(p, u, "p1", n)
        \/ \E a \in UpdateArgs : update_sandbox_state(p, "p1", a[1], a[2])
        \/ \E a \in UpdateArgs : tracker_update_sandbox_state(p, a[1], a[2])
        \/ EnsureSelectUser(p)
        \/ EnsureInsertUser(p)
        \/ GetOrCreateProjectSelect(p)
        \/ GetOrCreateProjectInsert(p)
        \/ UpdateSelect(p)
        \/ UpdateFlush(p)
        \/ Commit(p)
        \/ StoreFailure(p)
        \/ Return(p)

ProjSpec == Init /\ [][ProjNext]_vars


\* The two write-through methods of the trackers, running concurrently, on
\* one path; the state is handed over as the string the caller has, a
\* member's value or a string that names no member.
TrackerArgs == {<<Some("sbx-1"), "running">>, <<None, "stopped">>}

TrackerNext ==
    \E p \in Procs :
        \/ \E c \in Contents : track_file_write(p, "/a.py", c)
        \/ \E a \in TrackerArgs : tracker_update_sandbox_state(p, a[1], a[2])
        \/ EnsureSelectUser(p)
        \/ EnsureInsertUser(p)
        \/ GetOrCreateProjectSelect(p)
        \/ GetOrCreateProjectInsert(p)
        \/ SaveSelectMax(p)
        \/ SaveSelectPrev(p)
        \/ SaveFlush(p)
        \/ UpdateSelect(p)
        \/ UpdateFlush(p)
        \/ Commit(p)
        \/ StoreFailure(p)
        \/ Return(p)

TrackerSpec == Init /\ [][TrackerNext]_vars

\* FileTools.write_file on one path, concurrently, the sandbox and the
\* store failing at any step.
WriteNext ==
    \E p \in Procs :
        \/ \E c \in Contents, ow \in BOOLEAN, db \in BOOLEAN : write_file(p, "/a.py", c, ow, db)
        \/ \E ok \in BOOLEAN : WriteFileExists(p, ok)
        \/ \E ok \in BOOLEAN : WriteFileSandbox(p, ok)
        \/ WriteFileResult(p)
        \/ EnsureSelectUser(p)
        \/ EnsureInsertUser(p)
        \/ GetOrCreateProjectSelect(p)
        \/ GetOrCreateProjectInsert(p)
        \/ SaveSelectMax(p)
        \/ SaveSelectPrev(p)
        \/ SaveFlush(p)
        \/ Commit(p)
        \/ StoreFailure(p)
        \/ Return(p)

\* Two FileTools instances of one user, on one project or on two.
WriteInit == Init /\ tracker["t2"].user_id = "u1"

WriteSpec == WriteInit /\ [][WriteNext]_vars

\* The bootstraps, concurrently: the tracker's (before a sandbox state
\* update that changes nothing) and the ensure step of _persist_file_to_db;
\* the store does not fail, so what raises is a constraint.
BootNext ==
    \E p \in Procs :
        \/ tracker_update_sandbox_state(p, None, "")
        \/ write_file(p, "/a.py", <<"x=1">>, TRUE, TRUE)
        \/ WriteFileExists(p, TRUE)
        \/ WriteFileSandbox(p, TRUE)
        \/ EnsureSelectUser(p)
        \/ EnsureInsertUser(p)
        \/ GetOrCreateProjectSelect(p)
        \/ GetOrCreateProjectInsert(p)
        \/ SaveSelectMax(p)
        \/ SaveSelectPrev(p)
        \/ SaveFlush(p)
        \/ UpdateSelect(p)
        \/ UpdateFlush(p)
        \/ Commit(p)
        \/ Return(p)

BootSpec == Init /\ [][BootNext]_vars

\* The external session ids callers pass: absent, an id, the empty string.
ExtIds == {"agno-1", ""}
Exts == {None} \cup {Some(e) : e \in ExtIds}

\* The store after tracker t1 has bootstrapped (u1, p1): the user and the
\* project exist, no session does; project p2 has no row.
SessionInit ==
    /\ users = {"u1"}
    /\ projects = {new_project("u1", "p1", "Project p1")}
    /\ file_versions = <<>>
    /\ tracker = [p \in Procs |-> [user_id |-> "u1", project_id |-> "p1",
                                   initialized |-> (p = "t1")]]
    /\ pc = [p \in Procs |-> "idle"]
    /\ call = [p \in Procs |-> NoCall]
    /\ txn = [p \in Procs |-> NoTxn]
    /\ ret = [p \in Procs |-> NoRet]
    /\ logged = [p \in Procs |-> {}]
    /\ rst = [p \in Procs |-> NoRst]
    /\ sessions = {}
    /\ sandbox_files = [s \in Users \X Projects |-> [fp \in Paths |-> None]]
    /\ clock = 0

\* The session functions, concurrently; the store does not fail, so what
\* raises is a constraint.
SessionNext ==
    \E p \in Procs :
        \/ \E pr \in Projects, ext \in Exts : get_or_create_session(p, pr, ext)
        \/ \E e \in ExtIds : end_session(p, e)
        \/ SessionSelect(p)
        \/ SessionTouch(p)
        \/ SessionInsert(p)
        \/ EndSelect(p)
        \/ EndFlush(p)
        \/ Commit(p)
        \/ Return(p)

SessionSpec == SessionInit /\ [][SessionNext]_vars

\* The same, the store failing at any statement or commit.
SessionFailNext ==
    \E p \in Procs :
        \/ \E pr \in Projects, ext \in Exts : get_or_create_session(p, pr, ext)
        \/ \E e \in ExtIds : end_session(p, e)
        \/ SessionSelect(p)
        \/ SessionTouch(p)
        \/ SessionInsert(p)
        \/ EndSelect(p)
        \/ EndFlush(p)
        \/ Commit(p)
        \/ StoreFailure(p)
        \/ Return(p)

SessionFailSpec == SessionInit /\ [][SessionFailNext]_vars

\* The session functions, one call at a time; the store does not fail.
SessionSeqNext ==
    \E p \in Procs :
        \/ alone(p) /\ \E pr \in Projects, ext \in Exts : get_or_create_session(p, pr, ext)
        \/ alone(p) /\ \E e \in ExtIds : end_session(p, e)
        \/ alone(p) /\ SessionSelect(p)
        \/ alone(p) /\ SessionTouch(p)
        \/ alone(p) /\ SessionInsert(p)
        \/ alone(p) /\ EndSelect(p)
        \/ alone(p) /\ EndFlush(p)
        \/ alone(p) /\ Commit(p)
        \/ alone(p) /\ Return(p)

SessionSeqSpec == SessionInit /\ [][SessionSeqNext]_vars

\* Every operation that reaches the store, on one project and one path: the
\* file store, the trackers, the session functions and restore, one call
\* at a time, the store failing at any step.
AllInit == Init /\ tracker["t2"] = tracker["t1"]

AllNext ==
    \E p \in Procs :
        \/ alone(p) /\ \E c \in Contents : track_file_write(p, "/a.py", c)
        \/ alone(p) /\ \E c \in Contents : save_file_version(p, "p1", "/a.py", c, "write_file")
        \/ alone(p) /\ tracker_update_sandbox_state(p, Some("sbx-1"), "running")
        \/ alone(p) /\ get_or_create_session(p, "p1", Some("agno-1"))
        \/ alone(p) /\ end_session(p, "agno-1")
        \/ alone(p) /\ restore_project_files(p, "p1")
        \/ alone(p) /\ EnsureSelectUser(p)
        \/ alone(p) /\ EnsureInsertUser(p)
        \/ alone(p) /\ GetOrCreateProjectSelect(p)
        \/ alone(p) /\ GetOrCreateProjectInsert(p)
        \/ alone(p) /\ SaveSelectMax(p)
        \/ alone(p) /\ SaveSelectPrev(p)
        \/ alone(p) /\ SaveFlush(p)
        \/ alone(p) /\ UpdateSelect(p)
        \/ alone(p) /\ UpdateFlush(p)
        \/ alone(p) /\ SessionSelect(p)
        \/ alone(p) /\ SessionTouch(p)
        \/ alone(p) /\ SessionInsert(p)
        \/ alone(p) /\ EndSelect(p)
        \/ alone(p) /\ EndFlush(p)
        \/ alone(p) /\ RestoreFetch(p)
        \/ alone(p) /\ \E ok \in BOOLEAN : RestoreWrite(p, ok)
        \/ alone(p) /\ RestoreReturn(p)
        \/ alone(p) /\ Commit(p)
        \/ alone(p) /\ StoreFailure(p)
        \/ alone(p) /\ Return(p)

AllSpec == AllInit /\ [][AllNext]_vars

\* The project registry alone, concurrently, on a project that has a row
\* and on one that has none; the store does not fail, so what raises is
\* the code's own doing.
RepoNext ==
    \E p \in Procs :
        \/ \E pr \in Projects, n \in Names : get_or_create_project(p, "u1", pr, n)
        \/ \E pr \in Projects, a \in UpdateArgs : update_sandbox_state(p, pr, a[1], a[2])
        \/ GetOrCreateProjectSelect(p)
        \/ GetOrCreateProjectInsert(p)
        \/ UpdateSelect(p)
        \/ UpdateFlush(p)
        \/ Commit(p)
        \/ Return(p)

RepoSpec == SessionInit /\ [][RepoNext]_vars

\* track_file_write on one path by two trackers of one project,
\* concurrently, the user and the project in place; the store does not
\* fail, so what raises is the code's own doing.
AppendNext ==
    \E p \in Procs :
        \/ \E c \in Contents : track_file_write(p, "/a.py", c)
        \/ EnsureSelectUser(p)
        \/ GetOrCreateProjectSelect(p)
        \/ SaveSelectMax(p)
        \/ SaveSelectPrev(p)
        \/ SaveFlush(p)
        \/ Commit(p)
        \/ Return(p)

AppendSpec == SessionInit /\ [][AppendNext]_vars

\* Restores of project p1 running concurrently, between appends that run
\* one at a time and never while a restore is under way: no append falls
\* between two restores that are in progress or have just returned.
RestoreNext ==
    \E p \in Procs :
        \/ alone(p) /\ \E fp \in Paths : track_file_write(p, fp, <<"x=1">>)
        \/ alone(p) /\ EnsureSelectUser(p)
        \/ alone(p) /\ EnsureInsertUser(p)
        \/ alone(p) /\ GetOrCreateProjectSelect(p)
        \/ alone(p) /\ GetOrCreateProjectInsert(p)
        \/ alone(p) /\ SaveSelectMax(p)
        \/ alone(p) /\ SaveSelectPrev(p)
        \/ alone(p) /\ SaveFlush(p)
        \/ alone(p) /\ Commit(p)
        \/ restore_project_files(p, "p1")
        \/ RestoreFetch(p)
        \/ \E ok \in BOOLEAN : RestoreWrite(p, ok)
        \/ RestoreReturn(p)
        \/ StoreFailure(p)
        \/ Return(p)

RestoreSpec == AllInit /\ [][RestoreNext]_vars

\* The tracker's update_sandbox_state, one call at a time, with the strings
\* a caller may hand over: a member's value, a string that names no
\* member, the empty string; the store does not fail.
StateArgs == {<<Some("sbx-1"), "running">>, <<Some("sbx-1"), "stopped">>,
              <<Some("sbx-1"), "">>, <<None, "">>}

StateNext ==
    \E p \in Procs :
        \/ alone(p) /\ \E a \in StateArgs : tracker_update_sandbox_state(p, a[1], a[2])
        \/ alone(p) /\ EnsureSelectUser(p)
        \/ alone(p) /\ EnsureInsertUser(p)
        \/ alone(p) /\ GetOrCreateProjectSelect(p)
        \/ alone(p) /\ GetOrCreateProjectInsert(p)
        \/ alone(p) /\ UpdateSelect(p)
        \/ alone(p) /\ UpdateFlush(p)
        \/ alone(p) /\ Commit(p)
        \/ alone(p) /\ Return(p)

StateSpec == Init /\ [][StateNext]_vars

\* ---------------------------------------------------------------- claims

\* The position of row i in its chain, counting in commit order.
chain_position(i) ==
    Cardinality({j \in chain_rows(file_versions[i].project_id, file_versions[i].file_path) :
                    j <= i})

last_of(idx) == CHOOSE i \in idx : \A j \in idx : j <= i

\* C1: when no two calls overlap, the k-th successful append to a chain
\* carries version k, so a chain of N rows holds exactly the versions 1..N,
\* and get_latest_file_version returns the one row with version N, which
\* holds the content of the call that has just returned.
C1_SequentialVersions ==
    /\ \A i \in 1..Len(file_versions) : file_versions[i].version = chain_position(i)
    /\ \A pr \in Projects, fp \in Paths :
          chain_rows(pr, fp) # {} =>
              /\ {file_versions[i].version : i \in chain_rows(pr, fp)}
                    = 1..Cardinality(chain_rows(pr, fp))
              /\ get_latest_file_version(pr, fp) = {last_of(chain_rows(pr, fp))}
    /\ \A p \in Procs :
          (pc[p] = "done" /\ call[p].op = "save_file_version" /\ ~ret[p].raised) =>
              /\ ret[p].value[1].content = call[p].content
              /\ \E i \in get_latest_file_version(call[p].project_id, call[p].file_path) :
                    file_versions[i] = ret[p].value[1]
    /\ \A p \in Procs :
          (pc[p] = "done" /\ call[p].op = "track_file_write" /\ ret[p].value = Some(TRUE)) =>
              \E i \in get_latest_file_version(call[p].project_id, call[p].file_path) :
                  file_versions[i].content = call[p].content

\* C1 witness: a third append in a row to one chain has returned its row.
C1_Witness ==
    \E p \in Procs :
        /\ pc[p] = "done"
        /\ call[p].op = "save_file_version"
        /\ ~ret[p].raised
        /\ ret[p].value[1].version = 3
        /\ Cardinality(chain_rows(call[p].project_id, call[p].file_path)) = 3

\* C2 (as claimed): no two rows of one chain share a version number.
C2_DistinctVersions ==
    \A i, j \in 1..Len(file_versions) :
        (/\ i # j
         /\ file_versions[i].project_id = file_versions[j].project_id
         /\ file_versions[i].file_path = file_versions[j].file_path) =>
            file_versions[i].version # file_versions[j].version

\* Applying a unified diff: the text is cut into lines at its terminators;
\* after the two file headers each hunk header "@@ -s,l +s,l @@" is followed
\* by its lines, " " kept, "-" dropped, "+" added, the first two checked
\* against the text patched.  A text that does not apply is rejected.
Rejected == <<<<"rejected">>>>

to_int(s) == CHOOSE n \in 0..99 : ToString(n) = s

range_start(r) == to_int(r[1])
range_len(r) == IF Len(r) = 1 THEN 1 ELSE to_int(r[3])

index_of(line, tok) == CHOOSE i \in 1..Len(line) : line[i] = tok

old_range(h) == SubSeq(h, 2, index_of(h, " +") - 1)
new_range(h) == SubSeq(h, index_of(h, " +") + 1, index_of(h, " @@") - 1)

\* 0-based index of the first line the hunk covers.
hunk_first(h) ==
    IF range_len(old_range(h)) = 0 THEN range_start(old_range(h))
    ELSE range_start(old_range(h)) - 1

RECURSIVE apply_lines(_, _, _, _, _, _, _)
apply_lines(lines, k, base, cur, out, ro, rn) ==
    IF ro = 0 /\ rn = 0
    THEN IF k > Len(lines) THEN out \o SubSeq(base, cur + 1, Len(base))
         ELSE IF lines[k][1] # "@@ -" THEN Rejected
         ELSE IF hunk_first(lines[k]) < cur \/ hunk_first(lines[k]) > Len(base)
         THEN Rejected
         ELSE apply_lines(lines, k + 1, base, hunk_first(lines[k]),
                          out \o SubSeq(base, cur + 1, hunk_first(lines[k])),
                          range_len(old_range(lines[k])), range_len(new_range(lines[k])))
    ELSE IF k > Len(lines) THEN Rejected
    ELSE IF lines[k][1] = " " /\ ro > 0 /\ rn > 0 /\ cur < Len(base)
            /\ base[cur + 1] = Tail(lines[k])
    THEN apply_lines(lines, k + 1, base, cur + 1, Append(out, Tail(lines[k])), ro - 1, rn - 1)
    ELSE IF lines[k][1] = "-" /\ ro > 0 /\ cur < Len(base) /\ base[cur + 1] = Tail(lines[k])
    THEN apply_lines(lines, k + 1, base, cur + 1, out, ro - 1, rn)
    ELSE IF lines[k][1] = "+" /\ rn > 0
    THEN apply_lines(lines, k + 1, base, cur, Append(out, Tail(lines[k])), ro, rn - 1)
    ELSE Rejected

patch_lines(lines, base) ==
    IF Len(lines) < 3 \/ lines[1][1] # "--- " \/ lines[2][1] # "+++ " THEN Rejected
    ELSE apply_lines(lines, 3, base, 0, <<>>, 0, 0)

apply_diff(text, base) ==
    IF text = <<>> THEN base ELSE join(patch_lines(splitlines(text), splitlines(base)))

\* C3 (as claimed): every row of version k > 1 stores a diff that, applied
\* to the content of a version k-1 row of its chain, gives its own content.
C3_DiffRoundTrip ==
    \A i \in 1..Len(file_versions) :
        file_versions[i].version > 1 =>
            /\ file_versions[i].diff_from_previous # None
            /\ \E j \in get_file_version_rows(file_versions[i].project_id,
                                              file_versions[i].file_path,
                                              file_versions[i].version - 1) :
                  apply_diff(file_versions[i].diff_from_previous[1],
                             file_versions[j].content) = file_versions[i].content

\* C4: a row has no diff exactly when its version is 1, whether committed
\* or only flushed; an unchanged content stores the empty text, not None.
C4_DiffAbsentIffFirst ==
    /\ \A i \in 1..Len(file_versions) :
          (file_versions[i].diff_from_previous = None) <=> (file_versions[i].version = 1)
    /\ \A p \in Procs : \A k \in 1..Len(txn[p].rows) :
          (txn[p].rows[k].diff_from_previous = None) <=> (txn[p].rows[k].version = 1)

\* C4 witness: a second version whose content equals the first's, stored
\* with the empty diff text, next to its first version stored with None.
C4_Witness ==
    \E i, j \in 1..Len(file_versions) :
        /\ file_versions[i].project_id = file_versions[j].project_id
        /\ file_versions[i].file_path = file_versions[j].file_path
        /\ file_versions[i].version = 1
        /\ file_versions[i].diff_from_previous = None
        /\ file_versions[j].version = 2
        /\ file_versions[j].content = file_versions[i].content
        /\ file_versions[j].diff_from_previous = Some(<<>>)

\* C5 (as claimed): get_all_latest_files(project) holds exactly one row per
\* path with a version under the project, the row at the path's maximum
\* version, and no row of another project.
C5_OneLatestRowPerPath ==
    \A pr \in Projects :
        /\ \A k \in 1..Len(get_all_latest_files(pr)) :
              /\ get_all_latest_files(pr)[k].project_id = pr
              /\ get_all_latest_files(pr)[k].version
                    = max_version(pr, get_all_latest_files(pr)[k].file_path)
        /\ \A fp \in Paths :
              Cardinality({k \in 1..Len(get_all_latest_files(pr)) :
                              get_all_latest_files(pr)[k].file_path = fp})
                  = IF chain_rows(pr, fp) = {} THEN 0 ELSE 1

\* The paths with a version under the project.
tracked_paths(pr) == {fp \in Paths : chain_rows(pr, fp) # {}}

writes_of(p, fp) == {k \in 1..Len(rst[p].writes) : rst[p].writes[k].file_path = fp}

restore_done(p) ==
    pc[p] = "done" /\ call[p].op = "restore_project_files" /\ ~ret[p].raised

\* C6: when no two calls overlap, a restore that has returned made, for each
\* path tracked under the project, exactly one write, with the content of
\* the path's latest version, and none for another path; when every write
\* succeeded it returned the map from each tracked path to its latest
\* version number.
C6_RestoreReplaysLatest ==
    \A p \in Procs :
        restore_done(p) =>
            /\ \A fp \in Paths :
                  Cardinality(writes_of(p, fp))
                      = IF fp \in tracked_paths(call[p].project_id) THEN 1 ELSE 0
            /\ \A k \in 1..Len(rst[p].writes) :
                  \E i \in get_latest_file_version(call[p].project_id,
                                                   rst[p].writes[k].file_path) :
                      rst[p].writes[k].content = file_versions[i].content
            /\ (\A k \in 1..Len(rst[p].writes) : rst[p].writes[k].ok) =>
                  /\ DOMAIN ret[p].value[1] = tracked_paths(call[p].project_id)
                  /\ \A fp \in tracked_paths(call[p].project_id) :
                        ret[p].value[1][fp] = max_version(call[p].project_id, fp)

\* C6 witness: '/a.py' written with 'x=1', then with 'x=2', then restored:
\* one write of '/a.py' with the second content, result {'/a.py': 2}.
C6_Witness ==
    \E p \in Procs :
        /\ restore_done(p)
        /\ \E i \in chain_rows(call[p].project_id, "/a.py") :
              file_versions[i].version = 1 /\ file_versions[i].content = <<"x=1">>
        /\ rst[p].writes = <<[file_path |-> "/a.py", content |-> <<"x=2", NL>>, ok |-> TRUE]>>
        /\ DOMAIN ret[p].value[1] = {"/a.py"}
        /\ ret[p].value[1]["/a.py"] = 2

ok_paths(p) == {rst[p].writes[k].file_path : k \in {k \in 1..Len(rst[p].writes) : rst[p].writes[k].ok}}

\* C7: during a restore the k-th write is the path and content of the k-th
\* row get_all_latest_files returned, whatever became of the writes before
\* it; the map holds exactly the paths whose write succeeded, each with the
\* version of its row; the restore returns only after a write for every
\* row, returns that map, and raises only when the fetch did.
C7_RestoreToleratesWriteFailure ==
    \A p \in Procs :
        /\ (call[p].op = "restore_project_files" /\ pc[p] \in {"rst_write", "done"}
            /\ ~ret[p].raised) =>
              /\ rst[p].latest_files = get_all_latest_files(call[p].project_id)
              /\ Len(rst[p].writes) <= Len(rst[p].latest_files)
              /\ \A k \in 1..Len(rst[p].writes) :
                    /\ rst[p].writes[k].file_path = rst[p].latest_files[k].file_path
                    /\ rst[p].writes[k].content = rst[p].latest_files[k].content
              /\ DOMAIN rst[p].restored = ok_paths(p)
              /\ \A k \in 1..Len(rst[p].writes) :
                    rst[p].writes[k].ok =>
                        rst[p].restored[rst[p].writes[k].file_path]
                            = rst[p].latest_files[k].version
        /\ restore_done(p) =>
              /\ Len(rst[p].writes) = Len(rst[p].latest_files)
              /\ ret[p].value = Some(rst[p].restored)
        /\ (pc[p] = "done" /\ call[p].op = "restore_project_files" /\ ret[p].raised) =>
              rst[p].writes = <<>>

\* C7 witness: a restore of two paths has returned; the first write failed,
\* the second succeeded, and the map holds the second path only.
C7_Witness ==
    \E p \in Procs :
        /\ restore_done(p)
        /\ Len(rst[p].writes) = 2
        /\ ~rst[p].writes[1].ok
        /\ rst[p].writes[2].ok
        /\ DOMAIN ret[p].value[1] = {rst[p].writes[2].file_path}

\* C8 (as claimed): the (active_sandbox_id, sandbox_state) pair of a project
\* is the initial (null, NONE) or the argument pair of one call.
C8_PairOfOneCall ==
    \A r \in projects :
        <<r.active_sandbox_id, r.sandbox_state>> \in {<<None, "none">>} \cup UpdateArgs

project_with_id(id) == {r \in projects : r.id = id}

C9_State ==
    /\ \A pr \in Projects : Cardinality(project_with_id(pr)) <= 1
    /\ \A p \in Procs :
          /\ \A r \in txn[p].projects :
                r.active_sandbox_id = None /\ r.sandbox_state = "none"
          /\ (pc[p] = "done" /\ call[p].op = "get_or_create_project" /\ ~ret[p].raised) =>
                /\ ret[p].value # None
                /\ ret[p].value[1].id = call[p].project_id
                /\ \E r \in project_with_id(call[p].project_id) :
                      /\ r.name = ret[p].value[1].name
                      /\ r.user_id = ret[p].value[1].user_id

C9_Step ==
    \A r \in projects :
        \E r2 \in projects' : r2.id = r.id /\ r2.name = r.name /\ r2.user_id = r.user_id

\* C9: a project id has at most one row, whose name and owner never change
\* once committed; get_or_create_project returns the row of the id asked
\* for, with the name and owner the committed row has, whatever name and
\* owner the call was given; a row it creates has sandbox_state NONE and no
\* sandbox identifier.
C9_GetOrCreateIdempotent == []C9_State /\ [][C9_Step]_vars

\* C9 witness: get_or_create_project, called for an existing id with another
\* name and another owner, has returned the existing row.
C9_Witness ==
    \E p \in Procs :
        /\ pc[p] = "done" /\ call[p].op = "get_or_create_project" /\ ~ret[p].raised
        /\ ret[p].value[1].name # call[p].name
        /\ ret[p].value[1].user_id # call[p].user_id
        /\ ret[p].value[1] \in projects

track_finishes(p) ==
    call[p].op = "track_file_write" /\ pc[p] # "done" /\ pc'[p] = "done"

row_added(p) ==
    /\ Len(file_versions') = Len(file_versions) + 1
    /\ SubSeq(file_versions', 1, Len(file_versions)) = file_versions
    /\ file_versions'[Len(file_versions')].project_id = call[p].project_id
    /\ file_versions'[Len(file_versions')].file_path = call[p].file_path
    /\ file_versions'[Len(file_versions')].content = call[p].content

C10_Step ==
    /\ \A p \in Procs :
          track_finishes(p) =>
              /\ ~ret'[p].raised
              /\ ret'[p].value \in {Some(TRUE), Some(FALSE)}
              /\ (ret'[p].value = Some(TRUE)) <=> row_added(p)
              /\ (ret'[p].value = Some(FALSE)) => file_versions' = file_versions
              /\ (ret'[p].value = Some(FALSE))
                    <=> ("Failed to track file write" \in logged'[p])
    /\ file_versions' # file_versions =>
          \E p \in Procs : track_finishes(p) /\ ret'[p].value = Some(TRUE)
    /\ \A p \in Procs :
          (call[p].op = "tracker_update_sandbox_state" /\ pc'[p] = "done") =>
              ~ret'[p].raised

\* C10 (amended): track_file_write never raises; it returns False, with no
\* row added, exactly when the append raised, and True exactly when the
\* step that ends it commits the new row; a failure of the bootstrap alone
\* is logged and the append still attempted; rows are added by no other
\* step; the tracker's update_sandbox_state never raises.
C10_TrackNeverRaises == [][C10_Step]_vars

\* C10 witness: track_file_write has returned True, its row committed,
\* although its bootstrap had raised.
C10_Witness ==
    \E p \in Procs :
        /\ pc[p] = "done" /\ call[p].op = "track_file_write"
        /\ ret[p].value = Some(TRUE)
        /\ "Failed to ensure project exists" \in logged[p]
        /\ \E i \in 1..Len(file_versions) : file_versions[i].content = call[p].content

\* C10 (as claimed): a track_file_write whose bootstrap or append raised
\* has returned False.
C10_FalseWhenAnythingRaised ==
    \A p \in Procs :
        (pc[p] = "done" /\ call[p].op = "track_file_write" /\ logged[p] # {}) =>
            ret[p].value = Some(FALSE)

write_file_ends(p) ==
    call[p].op = "write_file" /\ pc[p] # "done" /\ pc'[p] = "done"

version_recorded_by(p) ==
    /\ file_versions' = Append(file_versions, file_versions'[Len(file_versions')])
    /\ file_versions'[Len(file_versions')].project_id = call[p].project_id
    /\ file_versions'[Len(file_versions')].file_path = call[p].file_path
    /\ file_versions'[Len(file_versions')].content = call[p].content
    /\ file_versions'[Len(file_versions')].created_by_tool = "write_file"

C11_Step ==
    /\ file_versions' # file_versions =>
          \E p \in Procs :
              /\ write_file_ends(p)
              /\ call[p].written
              /\ call[p].enable_db_tracking
              /\ version_recorded_by(p)
    /\ \A p \in Procs :
          write_file_ends(p) =>
              /\ ret'[p].raised <=> ~call'[p].written
              /\ ret'[p].raised => file_versions' = file_versions
              /\ call[p].written =>
                    /\ ret'[p].value = Some([success |-> TRUE, path |-> call[p].file_path])
                    /\ sandbox_files' = sandbox_files
    /\ sandbox_files' # sandbox_files =>
          \E p \in Procs :
              /\ pc[p] = "wf_write"
              /\ sandbox_files'[sandbox_of(call[p])][call[p].file_path]
                    = Some(call[p].content)

\* C11: a FileVersion row is added only by the step that ends a write_file
\* whose sandbox write of that path and content had succeeded; a write_file
\* that raises (the file exists and overwrite is off, or the sandbox write
\* failed) has added none; once the sandbox write has succeeded write_file
\* returns its success result whatever the persistence step did, and no
\* step after the sandbox write changes the sandbox's files.
C11_PersistAfterSandboxWrite == [][C11_Step]_vars

\* C11 witness: write_file has returned success, the sandbox holds the
\* content, the persistence step had failed and the store has no version.
C11_Witness ==
    \E p \in Procs :
        /\ pc[p] = "done" /\ call[p].op = "write_file"
        /\ ret[p].value = Some([success |-> TRUE, path |-> call[p].file_path])
        /\ "Failed to persist" \in logged[p]
        /\ sandbox_files[sandbox_of(call[p])][call[p].file_path] = Some(call[p].content)
        /\ file_versions = <<>>

\* The bootstrap of p's running call is over: the tracker's method is in
\* its body, or write_file has returned after its persistence step.
bootstrap_over(p) ==
    \/ call[p].op = "tracker_update_sandbox_state" /\ call[p].phase = "body"
    \/ /\ call[p].op = "write_file" /\ pc[p] = "done"
       /\ call[p].written /\ call[p].enable_db_tracking

same_ids(p) ==
    \A q \in Procs : /\ tracker[q].user_id = tracker[p].user_id
                     /\ tracker[q].project_id = tracker[p].project_id

\* C12: no project id has two rows (and no user id: users.id is the
\* primary key); when the bootstraps that run are all for one user_id and
\* one project_id, then once a bootstrap is over, as the winner or as the
\* loser of a race, the User row and exactly one Project row of these ids
\* exist.
C12_BootstrapOnce ==
    /\ \A pr \in Projects : Cardinality(project_with_id(pr)) <= 1
    /\ \A p \in Procs :
          (bootstrap_over(p) /\ same_ids(p)) =>
              /\ call[p].user_id \in users
              /\ Cardinality(project_with_id(call[p].project_id)) = 1

\* C12 witness: two bootstraps for the same ids have raced; both are over,
\* the loser's was logged, the rows exist.
C12_Witness ==
    /\ \A p \in Procs : bootstrap_over(p) /\ same_ids(p)
    /\ \E p \in Procs : logged[p] # {}
    /\ \E p \in Procs : logged[p] = {}
    /\ \A p \in Procs : call[p].user_id \in users
    /\ Cardinality(projects) = 1

session_call_done(p) == pc[p] = "done" /\ call[p].op = "get_or_create_session"

\* C13 (as claimed): get_or_create_session called with an external id that
\* a Session row carries returns the id of that row.
C13_ReturnsExistingSession ==
    \A p \in Procs :
        (session_call_done(p) /\ call[p].agno_session_id # None) =>
            \A r \in sessions :
                r.agno_session_id = call[p].agno_session_id =>
                    ret[p].value = Some(r.id)

\* C14 (as claimed): no two Session rows share a non-null external id, and
\* a get_or_create_session call made with an external id, for a project
\* that exists, returns the id of the row carrying that external id.
C14_EveryCallerGetsTheSession ==
    /\ \A r1, r2 \in sessions :
          (r1.agno_session_id # None /\ r1.agno_session_id = r2.agno_session_id) => r1 = r2
    /\ \A p \in Procs :
          (/\ session_call_done(p)
           /\ truthy(call[p].agno_session_id)
           /\ project_with_id(call[p].project_id) # {}) =>
              \E r \in sessions :
                  /\ r.agno_session_id = call[p].agno_session_id
                  /\ ret[p].value = Some(r.id)

session_ids(rows) == {r.id : r \in rows}

\* The step is end_session's commit going through.
end_session_commits(p) ==
    /\ call[p].op = "end_session"
    /\ pc[p] = "commit" /\ pc'[p] = "done"
    /\ logged'[p] = logged[p]

C15_Step ==
    \A p \in Procs :
        (call[p].op = "end_session" /\ pc'[p] # pc[p] /\ pc[p] # "done") =>
            /\ pc'[p] = "done" => ~ret'[p].raised
            /\ session_ids(sessions') = session_ids(sessions)
            /\ ~end_session_commits(p) => sessions' = sessions
            /\ (end_session_commits(p) /\ txn[p].loaded = None) => sessions' = sessions
            /\ (end_session_commits(p) /\ txn[p].loaded # None) =>
                  /\ \E r \in sessions' :
                        /\ r.id = txn[p].loaded[1].id
                        /\ r.agno_session_id = call[p].agno_session_id
                        /\ r.status = "ended"
                        /\ r.ended_at # None
                        /\ r.ended_at # txn[p].loaded[1].ended_at
                  /\ \A r \in sessions : r.id # txn[p].loaded[1].id => r \in sessions'

\* C15: end_session never raises and never adds a Session row; a call
\* whose lookup matched no row leaves every row as it is; a call whose
\* lookup matched leaves, when its commit goes through, that row with status
\* ENDED and a new ended_at, and every other row as it is.
C15_EndSessionTolerant == [][C15_Step]_vars

\* C15 witness: end_session has returned for an external id no row
\* carries, next to an existing session, nothing logged.
C15_Witness ==
    \E p \in Procs :
        /\ pc[p] = "done" /\ call[p].op = "end_session"
        /\ ~ret[p].raised /\ logged[p] = {}
        /\ sessions # {}
        /\ \A r \in sessions : r.agno_session_id # call[p].agno_session_id /\ r.status = "active"

\* C16: a Session row whose status is ENDED keeps that status through every
\* step of get_or_create_session and end_session.
C16_EndedIsTerminal ==
    [][\A r \in sessions : r.status = "ended" =>
            \E r2 \in sessions' : r2.id = r.id /\ r2.status = "ended"]_vars

\* C16 witness: get_or_create_session, called with the external id of an
\* ended session, has returned that session's id; the row was touched
\* after it ended and is still ENDED.
C16_Witness ==
    \E p \in Procs :
        /\ session_call_done(p)
        /\ \E r \in sessions :
              /\ r.agno_session_id = call[p].agno_session_id
              /\ ret[p].value = Some(r.id)
              /\ r.status = "ended"
              /\ r.last_active > r.ended_at[1]

\* The step is the commit of a save_file_version going through, called
\* directly or by track_file_write.
save_succeeds(p) ==
    /\ call[p].op \in {"save_file_version", "track_file_write"}
    /\ call[p].phase = "body"
    /\ pc[p] = "commit" /\ pc'[p] = "done"
    /\ ~ret'[p].raised /\ logged'[p] = logged[p]

chain_size(rows, project_id, file_path) ==
    Cardinality({i \in 1..Len(rows) :
        rows[i].project_id = project_id /\ rows[i].file_path = file_path})

C17_Step ==
    /\ \A p \in Procs :
          save_succeeds(p) =>
              /\ Len(file_versions') = Len(file_versions) + 1
              /\ SubSeq(file_versions', 1, Len(file_versions)) = file_versions
              /\ file_versions'[Len(file_versions')].content = call[p].content
              /\ chain_size(file_versions', call[p].project_id, call[p].file_path)
                    = chain_size(file_versions, call[p].project_id, call[p].file_path) + 1
    /\ file_versions' # file_versions => \E p \in Procs : save_succeeds(p)

\* C17: each save_file_version that succeeds adds exactly one row, to its
\* own chain and with its content, whether or not the content equals that
\* of the latest version; no other step adds a row, so a chain has as many
\* rows as appends to it succeeded.
C17_NoSkipIfUnchanged == [][C17_Step]_vars

\* C17 witness: save_file_version has returned version 3 of a chain whose
\* three rows hold the same content.
C17_Witness ==
    \E p \in Procs :
        /\ pc[p] = "done" /\ call[p].op = "save_file_version" /\ ~ret[p].raised
        /\ ret[p].value[1].version = 3
        /\ \A i \in chain_rows(call[p].project_id, call[p].file_path) :
              file_versions[i].content = call[p].content
        /\ chain_size(file_versions, call[p].project_id, call[p].file_path) = 3

\* C18: through every step of the file store, the trackers, the session
\* functions and restore, each FileVersion row stays where it is with all
\* its columns as they were: file_versions only grows at its end.
C18_AppendOnly ==
    [][/\ Len(file_versions') >= Len(file_versions)
       /\ SubSeq(file_versions', 1, Len(file_versions)) = file_versions]_vars

\* C18 witness: after a second version with another content, a session
\* begun and a restore run, the first version is still there as written.
C18_Witness ==
    \E p \in Procs :
        /\ restore_done(p)
        /\ sessions # {}
        /\ Len(file_versions) >= 2
        /\ file_versions[1].version = 1
        /\ file_versions[1].diff_from_previous = None
        /\ file_versions[2].version = 2
        /\ file_versions[2].content # file_versions[1].content
        /\ Len(rst[p].writes) = 1
        /\ rst[p].writes[1].content # file_versions[1].content

\* C19 (as claimed): get_or_create_session called without an external id
\* returns a session id and leaves the project it names with a row,
\* whether or not the project had one.
C19_SessionCreatesProject ==
    \A p \in Procs :
        (session_call_done(p) /\ call[p].agno_session_id = None) =>
            /\ project_with_id(call[p].project_id) # {}
            /\ ret[p].value # None

\* C20 (as claimed): when a statement of get_or_create_session or
\* end_session that no constraint can fail (any but the INSERT), or the
\* commit, fails, the caller observes the failure: the call raises.
C20_SessionFunctionsPropagate ==
    [][\A p \in Procs :
          (/\ call[p].op \in {"get_or_create_session", "end_session"}
           /\ pc[p] \in TxnPcs \ {"ses_insert"}
           /\ pc'[p] = "done"
           /\ logged'[p] # logged[p]) => ret'[p].raised]_vars

\* The step ends a get_db_session block of p: the bootstrap's, or the
\* handler's own.
block_ends(p) ==
    /\ call[p].op \in {"track_file_write", "tracker_update_sandbox_state"}
    /\ pc[p] \in TxnPcs
    /\ pc'[p] = "done" \/ call'[p].phase # call[p].phase

\* The block ends by its commit going through: nothing raised, nothing
\* logged by the enclosing handler.
block_commits(p) ==
    /\ block_ends(p)
    /\ pc[p] = "commit"
    /\ logged'[p] = logged[p]

C21_Step ==
    /\ \A p \in Procs :
          block_ends(p) =>
              /\ txn'[p] = NoTxn
              /\ block_commits(p) =>
                    /\ users' = users \cup txn[p].users
                    /\ txn[p].projects \subseteq projects'
                    /\ file_versions' = file_versions \o txn[p].rows
                    /\ \A u \in txn[p].updates :
                          \E r \in projects' :
                              /\ r.id = u.id
                              /\ "active_sandbox_id" \in u.cols =>
                                    r.active_sandbox_id = u.active_sandbox_id
                              /\ "sandbox_state" \in u.cols =>
                                    r.sandbox_state = u.sandbox_state
              /\ ~block_commits(p) =>
                    /\ <<users', projects', file_versions'>> = <<users, projects, file_versions>>
                    /\ logged'[p] # logged[p]
                    /\ ~ret'[p].raised
    /\ <<users', projects', file_versions'>> # <<users, projects, file_versions>> =>
          \E p \in Procs : block_commits(p)

\* C21 (amended): every get_db_session block of the trackers is one
\* transaction: when its commit goes through, everything the block flushed
\* (the user, the project, the version row, the sandbox fields) is
\* persisted at that step; when the body or the commit raises, nothing the
\* block flushed is persisted and the exception reaches the enclosing
\* handler, which logs it; either way the session is closed; the tables
\* change at no other step.  The block is the unit, not the logical
\* operation: ensure-tenant and ensure-project share the bootstrap's block.
C21_TransactionPerBlock == [][C21_Step]_vars

\* C21 witness: a bootstrap whose block raised has left no user and no
\* project; the append that followed raised too, and track_file_write has
\* returned False with both failures logged and its session closed.
C21_Witness ==
    \E p \in Procs :
        /\ pc[p] = "done" /\ call[p].op = "track_file_write"
        /\ ret[p].value = Some(FALSE)
        /\ logged[p] = {"Failed to ensure project exists", "Failed to track file write"}
        /\ txn[p] = NoTxn
        /\ users = {} /\ projects = {}

\* C21 (as claimed): each logical operation has a transaction of its own,
\* so ensure-project starts only once what ensure-tenant wrote is
\* committed: while a task runs the statements of ensure-project, the user
\* row its ensure-tenant added is in the users table.
C21_OwnTransactionEach ==
    \A p \in Procs :
        pc[p] \in {"proj_select", "proj_insert"} => txn[p].users \subseteq users

C22_Step ==
    \A p \in Procs :
        (call[p].op = "update_sandbox_state" /\ pc'[p] # pc[p]) =>
            /\ (pc[p] = "upd_select" /\ project_with_id(call[p].project_id) = {}) =>
                  /\ pc'[p] = "commit"
                  /\ txn'[p] = NoTxn
                  /\ projects' = projects
            /\ (pc[p] = "commit" /\ txn[p].loaded = None) =>
                  /\ pc'[p] = "done"
                  /\ ret'[p] = [raised |-> FALSE, value |-> None]
                  /\ <<users', projects', file_versions', sessions'>>
                        = <<users, projects, file_versions, sessions>>

\* C22: the repository's update_sandbox_state whose lookup finds no row of
\* the project goes on to the commit with nothing flushed, and returns None
\* without raising, every table as it was: no row created, no other
\* project's sandbox fields written.
C22_UpdateOnMissingProject == [][C22_Step]_vars

\* C22 witness: update_sandbox_state has returned for project p2, which has
\* no row; p1, set to running by an earlier call, is as it was.
C22_Witness ==
    \E p \in Procs :
        /\ pc[p] = "done" /\ call[p].op = "update_sandbox_state"
        /\ call[p].project_id = "p2" /\ call[p].state = "killed"
        /\ ~ret[p].raised
        /\ projects = {[new_project("u1", "p1", "Project p1") EXCEPT
                           !.active_sandbox_id = Some("sbx-1"),
                           !.sandbox_state = "running"]}

\* C23 (as claimed): with the store reachable, a track_file_write whose
\* append runs when every earlier append has finished (every other task is
\* idle, so each of its statements sees the committed chain as a call
\* issued then would) does not fail: it returns True.
C23_LaterAppendsSucceed ==
    [][\A p \in Procs :
          (/\ call[p].op = "track_file_write" /\ call[p].phase = "body"
           /\ alone(p)
           /\ pc[p] \in {"save_max", "save_prev", "save_flush", "commit"}
           /\ pc'[p] = "done") => ret'[p].value = Some(TRUE)]_vars

\* C24: in every state each FileVersion row and each Session row names a
\* project that has a row, and each Project row names a user that has a
\* row; so an append that follows a failed bootstrap leaves no version row
\* for a project without a row.
C24_ReferentialIntegrity ==
    /\ \A i \in 1..Len(file_versions) : project_with_id(file_versions[i].project_id) # {}
    /\ \A r \in sessions : project_with_id(r.project_id) # {}
    /\ \A r \in projects : r.user_id \in users

\* C24 witness: a track_file_write whose bootstrap failed has gone on to
\* its append; the project has no row, the append was refused and no
\* version row names the project.
C24_Witness ==
    \E p \in Procs :
        /\ pc[p] = "done" /\ call[p].op = "track_file_write"
        /\ "Failed to ensure project exists" \in logged[p]
        /\ "Failed to track file write" \in logged[p]
        /\ project_with_id(call[p].project_id) = {}
        /\ \A i \in 1..Len(file_versions) : file_versions[i].project_id # call[p].project_id

\* The rows of one chain, in commit order.
chain_of(rows, project_id, file_path) ==
    SelectSeq(rows, LAMBDA r : r.project_id = project_id /\ r.file_path = file_path)

C25_Step ==
    \A p \in Procs :
        save_succeeds(p) =>
            /\ file_versions'[Len(file_versions')].version
                  = Len(chain_of(file_versions, call[p].project_id, call[p].file_path)) + 1
            /\ \A pr \in Projects, fp \in Paths :
                  <<pr, fp>> # <<call[p].project_id, call[p].file_path>> =>
                      chain_of(file_versions', pr, fp) = chain_of(file_versions, pr, fp)

\* C25: when no two calls overlap, a save_file_version that succeeds gives
\* its row the number of rows its own chain held plus one, whatever the
\* other chains hold, and leaves the rows of every other chain as they
\* were: the same path under another project, and another path under the
\* same project, are numbered on their own, each from 1.
C25_ChainsIndependent == [][C25_Step]_vars

\* C25 witness: '/a.py' is at version 1 under both projects, next to
\* another chain, three rows in all.
C25_Witness ==
    /\ Len(file_versions) = 3
    /\ \A pr \in Projects :
          /\ Len(chain_of(file_versions, pr, "/a.py")) = 1
          /\ chain_of(file_versions, pr, "/a.py")[1].version = 1
    /\ file_versions[3].file_path = "/a.py"

\* The outcomes of the writes a restore made, in order.
write_outcomes(p) == [k \in 1..Len(rst[p].writes) |-> rst[p].writes[k].ok]

C26_State ==
    \A p, q \in Procs :
        (/\ restore_done(p) /\ restore_done(q)
         /\ call[p].project_id = call[q].project_id) =>
            /\ rst[p].latest_files = rst[q].latest_files
            /\ write_outcomes(p) = write_outcomes(q) => ret[p].value = ret[q].value

C26_Step ==
    \A p \in Procs :
        (call[p].op = "restore_project_files" /\ <<pc'[p], rst'[p]>> # <<pc[p], rst[p]>>) =>
            <<users', projects', file_versions', sessions'>>
                = <<users, projects, file_versions, sessions>>

\* C26 (amended): no step of restore_project_files changes a table: no
\* FileVersion row is added, no version number moves, no Project, Session
\* or User row changes, whether a write succeeds or fails; two restores of
\* a project with no append between them fetch the same rows, and return
\* the same map when the same writes succeed in both.
C26_RestoreReadOnly == []C26_State /\ [][C26_Step]_vars

\* C26 witness: two restores of a project of two files have returned with
\* no append between them, every write of both succeeded, and the maps are
\* the same two entries.
C26_Witness ==
    /\ \A p \in Procs :
          /\ restore_done(p)
          /\ Len(rst[p].writes) = 2
          /\ \A k \in 1..2 : rst[p].writes[k].ok
    /\ ret["t1"].value = ret["t2"].value
    /\ DOMAIN ret["t1"].value[1] = Paths

\* C26 (as claimed): two restores of a project with no append between them
\* return the same map.
C26_SameMapTwice ==
    \A p, q \in Procs :
        (/\ restore_done(p) /\ restore_done(q)
         /\ call[p].project_id = call[q].project_id) =>
            ret[p].value = ret[q].value

\* C27 (as claimed): the id get_or_create_session returns is that of a
\* Session row whose project_id is the project_id the call was given.
C27_SessionOfTheProject ==
    \A p \in Procs :
        (session_call_done(p) /\ ret[p].value # None) =>
            \E r \in sessions :
                /\ r.id = ret[p].value[1]
                /\ r.project_id = call[p].project_id

\* The positions of the bootstrap's lookups and inserts.
BootstrapPcs == {"ens_user", "ens_add_user", "proj_select", "proj_insert"}

C28_State ==
    \A p \in Procs :
        tracker[p].initialized =>
            /\ tracker[p].user_id \in users
            /\ project_with_id(tracker[p].project_id) # {}
            /\ pc[p] \notin BootstrapPcs
            /\ call[p].op # "none" => call[p].phase = "body"

C28_Step ==
    \A p \in Procs :
        /\ tracker'[p] # tracker[p] =>
              /\ tracker'[p] = [tracker[p] EXCEPT !.initialized = TRUE]
              /\ pc[p] = "commit" /\ call[p].phase = "ensure"
              /\ logged'[p] = logged[p]
              /\ tracker[p].user_id \in users'
              /\ project_with_id(tracker[p].project_id)' # {}
        /\ (call[p].phase = "ensure" /\ call'[p].phase = "body"
            /\ logged'[p] # logged[p]) => ~tracker'[p].initialized
        /\ (pc[p] = "idle" /\ pc'[p] # "idle" /\ ~tracker[p].initialized) =>
              pc'[p] = "ens_user" /\ call'[p].phase = "ensure"

\* C28: a tracker's _initialized changes only from false to true, and only
\* at the step where its bootstrap's commit goes through, after which the
\* user and the project have rows; a bootstrap that raises leaves it
\* false, and the next call of that tracker starts with the bootstrap
\* again; while it is true the tracker runs no statement of the bootstrap.
C28_InitializedAfterCommit == []C28_State /\ [][C28_Step]_vars

\* C28 witness: a tracker whose bootstrap raised is still uninitialized
\* after its track_file_write returned, although the user and the project
\* have rows, the other tracker's bootstrap having committed them.
C28_Witness ==
    \E p \in Procs :
        /\ pc[p] = "done" /\ call[p].op = "track_file_write"
        /\ "Failed to ensure project exists" \in logged[p]
        /\ ~tracker[p].initialized
        /\ tracker[p].user_id \in users
        /\ project_with_id(tracker[p].project_id) # {}
        /\ \E q \in Procs \ {p} : tracker[q].initialized

tracker_update_done(p) ==
    pc[p] = "done" /\ call[p].op = "tracker_update_sandbox_state"

C29_State ==
    \A p \in Procs :
        tracker_update_done(p) =>
            /\ ~ret[p].raised
            /\ call[p].state = "" =>
                  /\ logged[p] = {}
                  /\ \E r \in project_with_id(call[p].project_id) :
                        /\ r.active_sandbox_id = call[p].sandbox_id
                        /\ r.sandbox_state = "none"
            /\ call[p].state \notin SandboxState \cup {""} =>
                  logged[p] = {"Failed to update sandbox state"}

C29_Step ==
    \A p \in Procs :
        (/\ call[p].op = "tracker_update_sandbox_state" /\ call[p].phase = "body"
         /\ call[p].state \notin SandboxState \cup {""}) => projects' = projects

\* C29: when no two calls overlap and the store is reachable, the
\* tracker's update_sandbox_state never raises; called with a string that
\* names no SandboxState member it logs the failure and its own
\* transaction changes no project row; called with the empty string it
\* logs nothing and leaves the project with the sandbox_id given and state
\* NONE.
C29_UnknownStateIgnored == []C29_State /\ [][C29_Step]_vars

\* C29 witness: update_sandbox_state('sbx-1', 'stopped') has returned and
\* the project is still (sbx-1, NONE), the pair an earlier
\* update_sandbox_state('sbx-1', '') stored.
C29_Witness ==
    \E p \in Procs :
        /\ tracker_update_done(p)
        /\ call[p].state = "stopped"
        /\ \E r \in project_with_id(call[p].project_id) :
              r.active_sandbox_id = Some("sbx-1") /\ r.sandbox_state = "none"

C30_Step ==
    /\ <<users', projects', file_versions'>> # <<users, projects, file_versions>> =>
          \E p \in Procs :
              /\ write_file_ends(p)
              /\ pc[p] = "commit"
              /\ call[p].enable_db_tracking
              /\ logged'[p] = logged[p]
              /\ users' = users \cup txn[p].users
              /\ projects' = projects \cup txn[p].projects
              /\ Len(file_versions') = Len(file_versions) + 1
              /\ version_recorded_by(p)
    /\ \A p \in Procs :
          ("Failed to persist" \in logged'[p] /\ "Failed to persist" \notin logged[p]) =>
              /\ <<users', projects', file_versions'>> = <<users, projects, file_versions>>
              /\ txn'[p] = NoTxn
    /\ \A p \in Procs :
          (call[p].op = "write_file" /\ ~call[p].enable_db_tracking) =>
              /\ pc'[p] \notin TxnPcs
              /\ txn'[p] = NoTxn

\* C30: the store changes only at the step where the one transaction of a
\* _persist_file_to_db commits, and that step adds the call's version row
\* together with the user and the project the call created; when the
\* persistence fails at any statement or at the commit, the tables are as
\* they were, so no user or project of that call remains; with
\* enable_db_tracking off write_file opens no transaction at all.
C30_PersistAllOrNothing == [][C30_Step]_vars

\* C30 witness: write_file's persistence failed after its transaction had
\* begun; it has returned, and the store holds no user, no project and no
\* version, while the other write_file, tracking off, has returned too.
C30_Witness ==
    \E p \in Procs :
        /\ pc[p] = "done" /\ call[p].op = "write_file"
        /\ "Failed to persist" \in logged[p]
        /\ users = {} /\ projects = {} /\ file_versions = <<>>
        /\ \E q \in Procs \ {p} :
              /\ pc[q] = "done" /\ call[q].op = "write_file"
              /\ ~call[q].enable_db_tracking /\ ~ret[q].raised

====
